---- MODULE Spec2Model ----
(***************************************************************************)
(* A model of the Wikidata MCP server's tool layer:                        *)
(*   wikidata_api.py  execute_sparql (retry loop), get_entity_properties   *)
(*   server_sse.py    the tools registered with @mcp.tool() and            *)
(*                    _validate_sparql_query                               *)
(*                                                                         *)
(* Python values are tagged records:                                       *)
(*   None   [t |-> "none"]                                                 *)
(*   bool   [t |-> "bool", b |-> TRUE]                                     *)
(*   str    [t |-> "str", parts |-> <<...>>]  the text is the              *)
(*          concatenation of the parts; a query text has one part per      *)
(*          character.  No such text is a JSON document.                   *)
(*   str    [t |-> "jstr", val |-> v]  the text json.dumps(v) produces     *)
(*   dict   [t |-> "dict", d |-> [key |-> value, ...]]                     *)
(* An exception is [cls |-> class name, msg |-> message].                  *)
(***************************************************************************)
EXTENDS Integers, Sequences, FiniteSets, TLC

VARIABLES
    pc,            \* position of the one tool invocation in progress
    tool,          \* name of the function the caller invoked
    sparql_query,  \* execute_sparql's parameter
    attempt,       \* execute_sparql's loop variable
    backoff_time,  \* execute_sparql's local
    exec_result,   \* what execute_sparql returned
    locals,        \* the calling tool's locals that outlive the execute_sparql call
    result,        \* what the tool returned to its caller
    raised,        \* the exception that left the tool
    trace,         \* calls made so far by this invocation, in order
    text,          \* a query text given to the validator or to the line filter
    applied,       \* what the function applied to text gave
    frames,        \* the locals of each of several execute_sparql calls in progress
    running,       \* the tool call the server's one thread is in, 0 when in none
    active_sessions, \* server_sse.active_sessions: its entries, the latest used last
    connections,   \* the /sse requests: where each is, and its session_id
    uuids          \* how many times uuid4() was called

vars == <<pc, tool, sparql_query, attempt, backoff_time, exec_result, locals,
          result, raised, trace, text, applied, frames, running, active_sessions,
          connections, uuids>>

-----------------------------------------------------------------------------
(* Bounds of the model.                                                    *)

\* how many distinct exception messages the endpoint stub can produce
MaxMsgs == 2

-----------------------------------------------------------------------------
(* Python values.                                                          *)

None == [t |-> "none"]
Bool(b) == [t |-> "bool", b |-> b]
Str(parts) == [t |-> "str", parts |-> parts]
Dict(d) == [t |-> "dict", d |-> d]

IsStr(v) == v.t \in {"str", "jstr"}
IsDict(v) == v.t = "dict"
HasKey(v, k) == IsDict(v) /\ k \in DOMAIN v.d

\* json.dumps: every value the tools serialise is JSON-compatible
JsonDumps(v) == [t |-> "jstr", val |-> v]

\* json.loads(s): "ok" with the parsed value, or the exception it raises
\* (TypeError for a non-str argument, JSONDecodeError for a non-JSON text)
JsonLoads(s) ==
    IF ~IsStr(s) THEN [ok |-> FALSE, exc |-> [cls |-> "TypeError", msg |-> <<"the JSON object must be str, bytes or bytearray">>]]
    ELSE IF s.t = "jstr" THEN [ok |-> TRUE, val |-> s.val]
    ELSE [ok |-> FALSE, exc |-> [cls |-> "JSONDecodeError", msg |-> <<"Expecting value">>]]

\* str(n) for the small numbers the messages print
NumStr(n) == <<"0", "1", "2", "3", "4", "5", "6", "7", "8", "9">>[n + 1]

-----------------------------------------------------------------------------
(* wikidata_api.execute_sparql                                             *)

\* mutant: the cap set one too high
MAX_RETRIES_one_more == 3 + 1

MAX_RETRIES == 3
INITIAL_BACKOFF == 1

Msgs == {<<"m", NumStr(i)>> : i \in 1..MaxMsgs}

\* exception classes the endpoint call can raise; ValueError stands for any
\* Exception subclass that is none of the three named ones
ExcClasses == {"Timeout", "ConnectionError", "QueryBadFormed", "ValueError"}
Exceptions == [cls : ExcClasses, msg : Msgs]

\* result structures sparql.query().convert() can return
AskResult(b) == Dict([head |-> Dict(<<>>), boolean |-> Bool(b)])
SelectResult == Dict([head |-> Dict([vars |-> Str(<<"x">>)]),
                      results |-> Dict([bindings |-> Str(<<"rows">>)])])
Payloads == {AskResult(TRUE), AskResult(FALSE), SelectResult}

\* mutant: QueryBadFormed caught by the clause that retries
Handler_badformed_retried(cls) ==
    IF cls \in {"Timeout", "ConnectionError"} THEN "transient" ELSE "generic"

\* mutant: the last clause returns at once instead of retrying
Handler_generic_not_retried(cls) ==
    IF cls \in {"Timeout", "ConnectionError"} THEN "transient" ELSE "badformed"

\* mutant: no "except Exception" clause
Handler_no_generic_clause(cls) ==
    IF cls \in {"Timeout", "ConnectionError"} THEN "transient"
    ELSE IF cls = "QueryBadFormed" THEN "badformed"
    ELSE "none"

\* which except clause of execute_sparql catches an exception of class cls
\* (the clauses are tried in source order)
Handler(cls) ==
    IF cls \in {"Timeout", "ConnectionError"} THEN "transient"
    ELSE IF cls = "QueryBadFormed" THEN "badformed"
    ELSE "generic"

error_details(e, n, q) ==
    LET head == CASE Handler(e.cls) = "transient" ->
                       <<"Error executing query", " (attempt ", NumStr(n + 1), "/",
                         NumStr(MAX_RETRIES), "): ">>
                  [] Handler(e.cls) = "badformed" -> <<"SPARQL Query Syntax Error: ">>
                  [] OTHER ->
                       <<"An unexpected error occurred (attempt ", NumStr(n + 1), "/",
                         NumStr(MAX_RETRIES), "): ">>
    IN Dict([error |-> Str(head \o e.msg),
             query |-> q,
             error_type |-> Str(<<e.cls>>),
             traceback |-> Str(<<"Traceback (most recent call last): ", e.cls>> \o e.msg)])

\* mutant: only a part of the results structure is returned
success_value_head_only(results) == JsonDumps(results.d.head)

\* lines 254-256: what execute_sparql returns for the endpoint's results
success_value(results) == JsonDumps(results)

final_error_details(q) ==
    Dict([error |-> Str(<<"Max retries reached. Failed to execute SPARQL query.">>),
          query |-> q,
          error_type |-> Str(<<"MaxRetriesExceeded">>)])

-----------------------------------------------------------------------------
(* Characters and the regular-expression building blocks used by           *)
(* server_sse._validate_sparql_query.  A text is a sequence of one-        *)
(* character strings.  re.search finds a match iff some start position     *)
(* and some choice of repetition counts match, so every \s*, \s+, \w*      *)
(* below is an existential over the end of the repeated span.              *)

Digits == {"0", "1", "2", "3", "4", "5", "6", "7", "8", "9"}
LowerSeq == <<"a", "b", "c", "d", "e", "f", "g", "h", "i", "j", "k", "l", "m",
              "n", "o", "p", "q", "r", "s", "t", "u", "v", "w", "x", "y", "z">>
UpperSeq == <<"A", "B", "C", "D", "E", "F", "G", "H", "I", "J", "K", "L", "M",
              "N", "O", "P", "Q", "R", "S", "T", "U", "V", "W", "X", "Y", "Z">>
LowerLetters == {LowerSeq[i] : i \in DOMAIN LowerSeq}
UpperLetters == {UpperSeq[i] : i \in DOMAIN UpperSeq}

\* str.upper() on one character; also how re.IGNORECASE compares letters
ToUpper(c) ==
    IF c \in LowerLetters
    THEN UpperSeq[CHOOSE i \in DOMAIN LowerSeq : LowerSeq[i] = c]
    ELSE c
ToLower(c) ==
    IF c \in UpperLetters
    THEN LowerSeq[CHOOSE i \in DOMAIN UpperSeq : UpperSeq[i] = c]
    ELSE c

IsSpace(c) == c \in {" ", "\t", "\n", "\r", "\f"}                  \* \s
IsDigit(c) == c \in Digits                                         \* \d
IsLetter(c) == c \in LowerLetters \cup UpperLetters                \* [a-zA-Z]
IsAlnum(c) == IsLetter(c) \/ IsDigit(c)                            \* [a-zA-Z0-9]
IsWordChar(c) == IsAlnum(c) \/ c = "_"                             \* \w
NotGt(c) == c # ">"                                                \* [^>]

\* the literal w (given in upper case) matches q at position i, ignoring case
WordAt(q, i, w) ==
    /\ i >= 1
    /\ i + Len(w) - 1 <= Len(q)
    /\ \A k \in 1..Len(w) : ToUpper(q[i + k - 1]) = w[k]

\* c belongs to the character class cls of a pattern
InClass(c, cls) ==
    CASE cls = "\\s" -> IsSpace(c)
      [] cls = "\\w" -> IsWordChar(c)
      [] cls = "[a-zA-Z]" -> IsLetter(c)
      [] cls = "[a-zA-Z0-9]" -> IsAlnum(c)
      [] cls = "[^>]" -> NotGt(c)

\* the positions right after a span of at least min characters of class cls
\* that starts at position a
SpanEnds(q, a, cls, min) ==
    {j \in (a + min)..(Len(q) + 1) : \A k \in a..(j - 1) : InClass(q[k], cls)}

\* q has the character c at position i
CharAt(q, i, c) == i >= 1 /\ i <= Len(q) /\ q[i] = c

\* "$" without re.MULTILINE: the end of the text, or right before a final newline
AtEnd(q, p) == p = Len(q) + 1 \/ (p = Len(q) /\ q[p] = "\n")

\* str.count of a one-character string
Count(q, c) == Cardinality({i \in 1..Len(q) : q[i] = c})

-----------------------------------------------------------------------------
(* server_sse._validate_sparql_query                                       *)

brackets_map == [c \in {"(", "[", "{"} |->
                   CASE c = "(" -> ")" [] c = "[" -> "]" [] OTHER -> "}"]
ClosingBrackets == {brackets_map[c] : c \in DOMAIN brackets_map}

\* the characters of q the loop of check 1 acts on (it passes over the others)
IsBracket(c) == c \in DOMAIN brackets_map \/ c \in ClosingBrackets
\* mutant: the matcher passes over square brackets
Brackets_without_square(q) == SelectSeq(q, LAMBDA c : IsBracket(c) /\ c \notin {"[", "]"})

Brackets(q) == SelectSeq(q, IsBracket)

\* the stack-based matcher of check 1 over the brackets b of the query, from
\* position i with the stack open_brackets: the first failure, or "ok"
RECURSIVE BracketScan(_, _, _)
BracketScan(b, i, open_brackets) ==
    IF i > Len(b)
    THEN IF open_brackets # <<>>
         THEN [kind |-> "unclosed", ch |-> open_brackets[Len(open_brackets)]]
         ELSE [kind |-> "ok", ch |-> ""]
    ELSE IF b[i] \in DOMAIN brackets_map
    THEN BracketScan(b, i + 1, Append(open_brackets, b[i]))
    ELSE IF open_brackets = <<>>
            \/ brackets_map[open_brackets[Len(open_brackets)]] # b[i]
         THEN [kind |-> "closing", ch |-> b[i]]
         ELSE BracketScan(b, i + 1, SubSeq(open_brackets, 1, Len(open_brackets) - 1))

\* re.search(r"SELECT\s*(?![?*\w(])", query, re.IGNORECASE)
SelectRegex(q) ==
    \E i \in 1..Len(q) :
        /\ WordAt(q, i, <<"S", "E", "L", "E", "C", "T">>)
        /\ \E j \in SpanEnds(q, i + 6, "\\s", 0) :
              ~(j <= Len(q) /\ (q[j] \in {"?", "*", "("} \/ IsWordChar(q[j])))

\* re.search(r"WHERE\s*(?!\{)", query, re.IGNORECASE)
WhereRegex(q) ==
    \E i \in 1..Len(q) :
        /\ WordAt(q, i, <<"W", "H", "E", "R", "E">>)
        /\ \E j \in SpanEnds(q, i + 5, "\\s", 0) : ~CharAt(q, j, "{")

\* re.search(r"WHERE\s*DATA\s*\{", query, re.IGNORECASE)
WhereDataRegex(q) ==
    \E i \in 1..Len(q) :
        /\ WordAt(q, i, <<"W", "H", "E", "R", "E">>)
        /\ \E j \in SpanEnds(q, i + 5, "\\s", 0) :
              /\ WordAt(q, j, <<"D", "A", "T", "A">>)
              /\ \E k \in SpanEnds(q, j + 4, "\\s", 0) : CharAt(q, k, "{")

\* the positions right after a match of PREFIX\s+\w*:\s* that starts at i
PrefixHeadEnds(q, i) ==
    IF ~WordAt(q, i, <<"P", "R", "E", "F", "I", "X">>) THEN {}
    ELSE UNION {UNION {IF CharAt(q, k, ":") THEN SpanEnds(q, k + 1, "\\s", 0) ELSE {}
                       : k \in SpanEnds(q, j, "\\w", 0)}
                : j \in SpanEnds(q, i + 6, "\\s", 1)}

\* re.search(r"PREFIX\s+\w*:\s*(?!<)", query, re.IGNORECASE)
PrefixNoUriRegex(q) ==
    \E i \in 1..Len(q) : \E m \in PrefixHeadEnds(q, i) : ~CharAt(q, m, "<")

\* re.search(r"PREFIX\s+\w*:\s*<[^>]*$", query, re.IGNORECASE)
PrefixOpenUriRegex(q) ==
    \E i \in 1..Len(q) : \E m \in PrefixHeadEnds(q, i) :
        /\ CharAt(q, m, "<")
        /\ \E p \in SpanEnds(q, m + 1, "[^>]", 0) : AtEnd(q, p)

\* the lookahead \s*(NOT\s+EXISTS|EXISTS)\s*\{ matches at position a
ExistsAhead(q, a) ==
    \E b \in SpanEnds(q, a, "\\s", 0) :
        \/ /\ WordAt(q, b, <<"E", "X", "I", "S", "T", "S">>)
           /\ \E e \in SpanEnds(q, b + 6, "\\s", 0) : CharAt(q, e, "{")
        \/ /\ WordAt(q, b, <<"N", "O", "T">>)
           /\ \E d \in SpanEnds(q, b + 3, "\\s", 1) :
                 /\ WordAt(q, d, <<"E", "X", "I", "S", "T", "S">>)
                 /\ \E e \in SpanEnds(q, d + 6, "\\s", 0) : CharAt(q, e, "{")

\* re.search(r"FILTER\s*\((?!\s*(NOT\s+EXISTS|EXISTS)\s*\{)", query, re.IGNORECASE)
FilterRegex(q) ==
    \E i \in 1..Len(q) :
        /\ WordAt(q, i, <<"F", "I", "L", "T", "E", "R">>)
        /\ \E j \in SpanEnds(q, i + 6, "\\s", 0) :
              CharAt(q, j, "(") /\ ~ExistsAhead(q, j + 1)

\* re.search(r"FILTER\s*\(\s*\)", query, re.IGNORECASE)
EmptyFilterRegex(q) ==
    \E i \in 1..Len(q) :
        /\ WordAt(q, i, <<"F", "I", "L", "T", "E", "R">>)
        /\ \E j \in SpanEnds(q, i + 6, "\\s", 0) :
              /\ CharAt(q, j, "(")
              /\ \E k \in SpanEnds(q, j + 1, "\\s", 0) : CharAt(q, k, ")")

\* re.search(r"(LIMIT|OFFSET)\s+(?!\d+)", query, re.IGNORECASE)
LimitOffsetRegex(q) ==
    \E i \in 1..Len(q) :
        \E w \in {<<"L", "I", "M", "I", "T">>, <<"O", "F", "F", "S", "E", "T">>} :
            /\ WordAt(q, i, w)
            /\ \E j \in SpanEnds(q, i + Len(w), "\\s", 1) :
                  ~(j <= Len(q) /\ IsDigit(q[j]))

\* \?\w+ matches at position k
VariableAt(q, k) == CharAt(q, k, "?") /\ k + 1 <= Len(q) /\ IsWordChar(q[k + 1])

\* (ASC|DESC)\s*\(|\?\w+|IRI|STR|LANG|DATATYPE matches at position k
OrderKeyAt(q, k) ==
    \/ \E w \in {<<"A", "S", "C">>, <<"D", "E", "S", "C">>} :
           /\ WordAt(q, k, w)
           /\ \E m \in SpanEnds(q, k + Len(w), "\\s", 0) : CharAt(q, m, "(")
    \/ VariableAt(q, k)
    \/ WordAt(q, k, <<"I", "R", "I">>)
    \/ WordAt(q, k, <<"S", "T", "R">>)
    \/ WordAt(q, k, <<"L", "A", "N", "G">>)
    \/ WordAt(q, k, <<"D", "A", "T", "A", "T", "Y", "P", "E">>)

\* the positions right after a match of w\s+BY\s+ that starts at i
ByHeadEnds(q, i, w) ==
    IF ~WordAt(q, i, w) THEN {}
    ELSE UNION {IF WordAt(q, j, <<"B", "Y">>) THEN SpanEnds(q, j + 2, "\\s", 1) ELSE {}
                : j \in SpanEnds(q, i + Len(w), "\\s", 1)}

\* re.search(r"ORDER\s+BY\s+(?!(ASC|DESC)\s*\(|\?\w+|IRI|STR|LANG|DATATYPE)", ...)
OrderByRegex(q) ==
    \E i \in 1..Len(q) :
        \E k \in ByHeadEnds(q, i, <<"O", "R", "D", "E", "R">>) : ~OrderKeyAt(q, k)

\* re.search(r"GROUP\s+BY\s+(?!\?\w+)", query, re.IGNORECASE)
GroupByRegex(q) ==
    \E i \in 1..Len(q) :
        \E k \in ByHeadEnds(q, i, <<"G", "R", "O", "U", "P">>) : ~VariableAt(q, k)

\* the positions right after (?:-[a-zA-Z0-9]+)* when it starts at position j
RECURSIVE SubtagEnds(_, _)
SubtagEnds(q, j) ==
    {j} \cup (IF CharAt(q, j, "-")
              THEN UNION {SubtagEnds(q, e) : e \in SpanEnds(q, j + 1, "[a-zA-Z0-9]", 1)}
              ELSE {})

\* re.search(r'@[a-zA-Z]{2,}(?:-[a-zA-Z0-9]+)*\s*(")', query)
LangTagQuoteRegex(q) ==
    \E i \in 1..Len(q) :
        /\ q[i] = "@"
        /\ \E j \in SpanEnds(q, i + 1, "[a-zA-Z]", 2) :
              \E k \in SubtagEnds(q, j) :
                  \E m \in SpanEnds(q, k, "\\s", 0) : CharAt(q, m, "\"")

\* re.search(r'\^\^<[^>]*>\s*(")', query)
DatatypeQuoteRegex(q) ==
    \E i \in 1..Len(q) :
        /\ q[i] = "^" /\ CharAt(q, i + 1, "^") /\ CharAt(q, i + 2, "<")
        /\ \E j \in SpanEnds(q, i + 3, "[^>]", 0) :
              /\ CharAt(q, j, ">")
              /\ \E m \in SpanEnds(q, j + 1, "\\s", 0) : CharAt(q, m, "\"")

\* position i of q is removed by re.sub(r"#.*$", "", query, flags=re.MULTILINE):
\* a "#" precedes it on its line
InComment(q, i) ==
    \E k \in 1..i : q[k] = "#" /\ \A m \in k..i : q[m] # "\n"

\* clean_query_for_quotes.count(c)
CleanCount(q, c) == Cardinality({i \in 1..Len(q) : q[i] = c /\ ~InComment(q, i)})

Invalid(error, suggestion) ==
    [is_valid |-> FALSE, error |-> Str(error), suggestion |-> Str(suggestion)]

\* mutant: the LIMIT/OFFSET check made before the SELECT check
validate_sparql_query_limit_before_select(q) ==
    LET scan == BracketScan(Brackets(q), 1, <<>>) IN
    IF scan.kind = "closing"
    THEN Invalid(<<"Unbalanced closing bracket/parenthesis/brace: '", scan.ch, "'">>,
                 <<"Ensure all opening brackets, parentheses, and braces have a matching closing one in the correct order.">>)
    ELSE IF scan.kind = "unclosed"
    THEN Invalid(<<"Unclosed opening bracket/parenthesis/brace: '", scan.ch, "'">>,
                 <<"Ensure all opening brackets, parentheses, and braces are closed.">>)
    ELSE IF LimitOffsetRegex(q)
    THEN Invalid(<<"Invalid LIMIT or OFFSET clause.">>,
                 <<"LIMIT and OFFSET keywords must be followed by a non-negative integer.">>)
    ELSE IF SelectRegex(q)
    THEN Invalid(<<"Invalid SELECT clause.">>,
                 <<"SELECT keyword should be followed by variables (e.g., ?var), '*', or aggregate functions (e.g., COUNT(?var)).">>)
    ELSE IF WhereRegex(q) /\ ~WhereDataRegex(q)
    THEN Invalid(<<"Invalid WHERE clause.">>,
                 <<"WHERE keyword should be followed by a graph pattern enclosed in curly braces {} (e.g., WHERE { ?s ?p ?o . }).">>)
    ELSE IF PrefixNoUriRegex(q)
    THEN Invalid(<<"Invalid PREFIX declaration.">>,
                 <<"PREFIX declarations should use URIs enclosed in < > (e.g., PREFIX foaf: <http://xmlns.com/foaf/0.1/>).">>)
    ELSE IF PrefixOpenUriRegex(q)
    THEN Invalid(<<"Incomplete URI in PREFIX declaration.">>,
                 <<"Ensure URIs in PREFIX declarations are properly closed with '>'.">>)
    ELSE IF FilterRegex(q) /\ EmptyFilterRegex(q)
    THEN Invalid(<<"Empty FILTER clause.">>,
                 <<"FILTER clauses must contain an expression (e.g., FILTER(?age > 18)).">>)
    ELSE IF OrderByRegex(q)
    THEN Invalid(<<"Invalid ORDER BY clause.">>,
                 <<"ORDER BY should be followed by a variable (e.g., ?name), or a function call like ASC(?date) or DESC(?value).">>)
    ELSE IF GroupByRegex(q)
    THEN Invalid(<<"Invalid GROUP BY clause.">>,
                 <<"GROUP BY should be followed by one or more variables (e.g., GROUP BY ?type).">>)
    ELSE IF /\ Count(q, "\"") % 2 # 0
            /\ ~LangTagQuoteRegex(q)
            /\ ~DatatypeQuoteRegex(q)
            /\ CleanCount(q, "\"") % 2 # 0
    THEN Invalid(<<"Unbalanced double quotes.">>,
                 <<"Ensure all string literals using double quotes are properly opened and closed. Escape internal quotes if necessary (e.g., \\\" ).">>)
    ELSE IF Count(q, "'") % 2 # 0 /\ CleanCount(q, "'") % 2 # 0
    THEN Invalid(<<"Unbalanced single quotes.">>,
                 <<"Ensure all string literals using single quotes are properly opened and closed. Escape internal quotes if necessary (e.g., \\' ).">>)
    ELSE [is_valid |-> TRUE]

validate_sparql_query(q) ==
    LET scan == BracketScan(Brackets(q), 1, <<>>) IN
    IF scan.kind = "closing"
    THEN Invalid(<<"Unbalanced closing bracket/parenthesis/brace: '", scan.ch, "'">>,
                 <<"Ensure all opening brackets, parentheses, and braces have a matching closing one in the correct order.">>)
    ELSE IF scan.kind = "unclosed"
    THEN Invalid(<<"Unclosed opening bracket/parenthesis/brace: '", scan.ch, "'">>,
                 <<"Ensure all opening brackets, parentheses, and braces are closed.">>)
    ELSE IF SelectRegex(q)
    THEN Invalid(<<"Invalid SELECT clause.">>,
                 <<"SELECT keyword should be followed by variables (e.g., ?var), '*', or aggregate functions (e.g., COUNT(?var)).">>)
    ELSE IF WhereRegex(q) /\ ~WhereDataRegex(q)
    THEN Invalid(<<"Invalid WHERE clause.">>,
                 <<"WHERE keyword should be followed by a graph pattern enclosed in curly braces {} (e.g., WHERE { ?s ?p ?o . }).">>)
    ELSE IF PrefixNoUriRegex(q)
    THEN Invalid(<<"Invalid PREFIX declaration.">>,
                 <<"PREFIX declarations should use URIs enclosed in < > (e.g., PREFIX foaf: <http://xmlns.com/foaf/0.1/>).">>)
    ELSE IF PrefixOpenUriRegex(q)
    THEN Invalid(<<"Incomplete URI in PREFIX declaration.">>,
                 <<"Ensure URIs in PREFIX declarations are properly closed with '>'.">>)
    ELSE IF FilterRegex(q) /\ EmptyFilterRegex(q)
    THEN Invalid(<<"Empty FILTER clause.">>,
                 <<"FILTER clauses must contain an expression (e.g., FILTER(?age > 18)).">>)
    ELSE IF LimitOffsetRegex(q)
    THEN Invalid(<<"Invalid LIMIT or OFFSET clause.">>,
                 <<"LIMIT and OFFSET keywords must be followed by a non-negative integer.">>)
    ELSE IF OrderByRegex(q)
    THEN Invalid(<<"Invalid ORDER BY clause.">>,
                 <<"ORDER BY should be followed by a variable (e.g., ?name), or a function call like ASC(?date) or DESC(?value).">>)
    ELSE IF GroupByRegex(q)
    THEN Invalid(<<"Invalid GROUP BY clause.">>,
                 <<"GROUP BY should be followed by one or more variables (e.g., GROUP BY ?type).">>)
    ELSE IF /\ Count(q, "\"") % 2 # 0
            /\ ~LangTagQuoteRegex(q)
            /\ ~DatatypeQuoteRegex(q)
            /\ CleanCount(q, "\"") % 2 # 0
    THEN Invalid(<<"Unbalanced double quotes.">>,
                 <<"Ensure all string literals using double quotes are properly opened and closed. Escape internal quotes if necessary (e.g., \\\" ).">>)
    ELSE IF Count(q, "'") % 2 # 0 /\ CleanCount(q, "'") % 2 # 0
    THEN Invalid(<<"Unbalanced single quotes.">>,
                 <<"Ensure all string literals using single quotes are properly opened and closed. Escape internal quotes if necessary (e.g., \\' ).">>)
    ELSE [is_valid |-> TRUE]

-----------------------------------------------------------------------------
(* Inputs and the outcomes of the HTTP wrappers of wikidata_api.py.        *)

EntityIds == {<<"Q", "4", "2">>}
PropertyIds == {<<"P", "3", "1">>}
EntityNames == {Str(<<"Douglas Adams">>)}
PropertyNames == {None, Str(<<"instance of">>)}
Limits == {<<"1", "0">>}

\* "if x:" for a value that is None or a str
Truthy(v) == v.t # "none" /\ (v.t = "str" => v.parts # <<>>)

\* s.startswith(head), where head is the fixed head of the f-string that built s
StartsWith(s, head) == s.t = "str" /\ s.parts # <<>> /\ s.parts[1] = head

\* piece in s, where piece is a fixed piece of the f-string that built s
Contains(s, piece) == s.t = "str" /\ \E i \in DOMAIN s.parts : s.parts[i] = piece

\* what search_entity can return: the first match's id, the sentinel, or the
\* message of a caught RequestException
SearchEntityResults ==
    {Str(id) : id \in EntityIds}
    \cup {Str(<<"No entity found">>)}
    \cup {Str(<<"Error searching for entity:", " ">> \o m) : m \in Msgs}

\* what search_property can return
SearchPropertyResults ==
    {Str(id) : id \in PropertyIds}
    \cup {Str(<<"No property found">>)}
    \cup {Str(<<"Error searching for property:", " ">> \o m) : m \in Msgs}

\* what get_entity_metadata(entity_id) can return
EntityMetadataResults(entity_id) ==
    {Dict([id |-> entity_id, label |-> Str(<<"Douglas Adams">>),
           description |-> Str(<<"English writer">>)])}
    \cup {Dict([error |-> Str(<<"Entity ">> \o entity_id.parts \o <<" not found">>)])}
    \cup {Dict([error |-> Str(<<"Error retrieving entity metadata: ">> \o m)]) : m \in Msgs}

\* how a search_entity or search_property call ended
SearchOutcome(r) ==
    IF StartsWith(r, "Error searching for entity:")
       \/ StartsWith(r, "Error searching for property:") THEN "error"
    ELSE IF r \in {Str(<<"No entity found">>), Str(<<"No property found">>)} THEN "none"
    ELSE "ok"

\* how a get_entity_metadata call ended
MetadataOutcome(m) == IF HasKey(m, "error") THEN "error" ELSE "ok"

\* one call made by the invocation: which function, execute_sparql's attempt
\* index (or the seconds slept), how the call ended and the value it returned
Event(op, n, out, val) == [op |-> op, n |-> n, out |-> out, val |-> val]

\* a function's outcome: the value it returns or the exception it lets out
Returns(v) == [ok |-> TRUE, val |-> v]
Raises(e) == [ok |-> FALSE, exc |-> e]

-----------------------------------------------------------------------------
(* The tools of server_sse.py.  A tool's model takes, besides the tool's   *)
(* arguments, the outcome of each call it makes to wikidata_api.py.        *)

\* mutant: the search result is handed on as it is, found or not
search_wikidata_entity_bare(query, search_result) == search_result

\* search_wikidata_entity(query), result being what search_entity(query) returned
search_wikidata_entity(query, search_result) ==
    IF StartsWith(search_result, "Error searching for entity:")
    THEN JsonDumps(Dict([
            error |-> Str(<<"Failed to search Wikidata entity.">>),
            details |-> search_result,
            suggestion |-> Str(<<"Check your network connection or try a different search query.">>)]))
    ELSE IF search_result = Str(<<"No entity found">>)
    THEN JsonDumps(Dict([
            error |-> Str(<<"No entity found on Wikidata.">>),
            details |-> Str(<<"The query '">> \o query.parts \o <<"' did not return any results.">>),
            suggestion |-> Str(<<"Try alternative spellings, more general or specific terms, or ensure the entity exists on Wikidata.">>)]))
    ELSE search_result

\* mutant: the search result is handed on as it is, found or not
search_wikidata_property_bare(query, search_result) == search_result

\* search_wikidata_property(query), result being what search_property(query) returned
search_wikidata_property(query, search_result) ==
    IF StartsWith(search_result, "Error searching for property:")
    THEN JsonDumps(Dict([
            error |-> Str(<<"Failed to search Wikidata property.">>),
            details |-> search_result,
            suggestion |-> Str(<<"Check your network connection or try a different search query.">>)]))
    ELSE IF search_result = Str(<<"No property found">>)
    THEN JsonDumps(Dict([
            error |-> Str(<<"No property found on Wikidata.">>),
            details |-> Str(<<"The query '">> \o query.parts
                            \o <<"' did not return any results for a property.">>),
            suggestion |-> Str(<<"Try alternative spellings, or ensure the property exists on Wikidata (e.g., check common properties list).">>)]))
    ELSE search_result

\* get_wikidata_metadata(entity_id), metadata being what get_entity_metadata returned
get_wikidata_metadata(entity_id, metadata) ==
    IF HasKey(metadata, "error")
    THEN JsonDumps(Dict([
            error |-> Str(<<"Failed to get metadata for entity ID '">> \o entity_id.parts \o <<"'.">>),
            details |-> metadata.d.error,
            suggestion |-> Str(<<"The entity ID might be invalid, the entity may not exist, or there could be an issue with the metadata service.">>)]))
    ELSE JsonDumps(metadata)

\* get_entity_properties after its execute_sparql call has ended with `executed`
get_entity_properties(executed) ==
    IF ~executed.ok THEN executed
    ELSE LET parsed == JsonLoads(executed.val)
         IN IF parsed.ok THEN Returns(parsed.val) ELSE Raises(parsed.exc)

\* get_wikidata_properties(entity_id) from line 126 on, properties being the
\* outcome of its get_entity_properties call
get_wikidata_properties(entity_id, properties) ==
    IF ~properties.ok THEN properties
    ELSE
    LET properties_json_str == properties.val
        parsed == JsonLoads(properties_json_str)
    IN
    IF ~parsed.ok
    THEN IF parsed.exc.cls = "JSONDecodeError"
         THEN Returns(JsonDumps(Dict([
                 error |-> Str(<<"Received non-JSON response when fetching entity properties.">>),
                 details |-> properties_json_str,
                 suggestion |-> Str(<<"This indicates an unexpected response format from the properties retrieval function.">>)])))
         ELSE Raises(parsed.exc)
    ELSE
    LET properties_data == parsed.val IN
    IF HasKey(properties_data, "error") /\ HasKey(properties_data, "error_type")
    THEN LET error_type == properties_data.d.error_type
             suggestion ==
                 IF error_type = Str(<<"QueryBadFormed">>)
                 THEN <<"The underlying SPARQL query for fetching properties might be malformed (unlikely for default queries) or there's an issue with the entity ID affecting the query.">>
                 ELSE IF error_type \in {Str(<<"Timeout">>), Str(<<"ConnectionError">>),
                                         Str(<<"MaxRetriesExceeded">>)}
                 THEN <<"Fetching properties failed due to network issues or timeout. Please try again later.">>
                 ELSE <<"Review the error details. If it's a query issue, the default query for properties might be failing for this entity.">>
         IN Returns(JsonDumps(Dict([
                 error |-> Str(<<"Failed to get properties for entity ID '">>
                               \o entity_id.parts \o <<"'.">>),
                 details |-> properties_data.d.error,
                 error_type |-> error_type,
                 original_query |-> properties_data.d.query,
                 suggestion |-> Str(suggestion)])))
    ELSE Returns(properties_json_str)

\* execute_wikidata_sparql, lines 170-175: the value returned for an invalid verdict
validation_failed(validation_result) ==
    JsonDumps(Dict([
        error |-> Str(<<"SPARQL query validation failed">>),
        details |-> validation_result.error,
        suggestion |-> validation_result.suggestion]))

\* execute_wikidata_sparql from line 177 on, `executed` being the outcome of
\* its execute_sparql(sparql_query) call
\* mutant: the executor's text is returned as it is
execute_wikidata_sparql_after_raw(query, executed) == executed.val

execute_wikidata_sparql_after(query, executed) ==
    IF ~executed.ok
    THEN LET error_message == executed.exc.msg
         IN IF /\ \E i \in DOMAIN error_message : error_message[i] = "Lexical error"
               /\ \E i \in DOMAIN error_message : error_message[i] = "Encountered: "
            THEN JsonDumps(Dict([error |-> Str(<<"SPARQL syntax error: ">> \o error_message
                     \o <<". Check for unescaped quotes or special characters.">>)]))
            ELSE JsonDumps(Dict([error |-> Str(<<"Error executing SPARQL query: ">>
                     \o error_message)]))
    ELSE
    LET raw_result == executed.val
        parsed == JsonLoads(raw_result)
    IN
    IF ~parsed.ok
    THEN IF parsed.exc.cls = "JSONDecodeError"
         THEN JsonDumps(Dict([
                 error |-> Str(<<"Received non-JSON response from SPARQL execution.">>),
                 details |-> raw_result,
                 suggestion |-> Str(<<"Check the SPARQL endpoint or the API's response format.">>)]))
         ELSE JsonDumps(Dict([error |-> Str(<<"Error executing SPARQL query: ">>
                     \o parsed.exc.msg)]))
    ELSE
    LET result_data == parsed.val IN
    IF HasKey(result_data, "error") /\ HasKey(result_data, "error_type")
    THEN LET error_msg == result_data.d.error
             error_type == result_data.d.error_type
             original_query == IF HasKey(result_data, "query")
                               THEN result_data.d.query ELSE query
             original_error_type ==
                 IF HasKey(result_data, "original_error_type")
                 THEN result_data.d.original_error_type.parts
                 ELSE <<"transient issues">>
             suggestion ==
                 IF error_type = Str(<<"QueryBadFormed">>)
                 THEN <<"The SPARQL query syntax is incorrect. Please check for typos, keyword misuse, or structural issues. Refer to SPARQL documentation or use a SPARQL validator for assistance.">>
                 ELSE IF error_type = Str(<<"Timeout">>)
                 THEN <<"The query execution timed out. Try simplifying the query, adding or adjusting LIMIT/OFFSET clauses, or reducing its complexity. Executing it at a later time might also help.">>
                 ELSE IF error_type = Str(<<"ConnectionError">>)
                 THEN <<"A network connection error occurred while trying to reach the SPARQL endpoint. Please check your internet connection and try again later.">>
                 ELSE IF error_type = Str(<<"MaxRetriesExceeded">>)
                 THEN <<"The query failed after multiple retries due to repeated '">>
                      \o original_error_type
                      \o <<"'. This could be due to network issues or endpoint overload. Try again later. Original error: ">>
                      \o error_msg.parts
                 ELSE IF Contains(error_msg, "Error executing query")
                 THEN <<"An error occurred during query execution. Check the syntax and ensure all identifiers (URIs, variables) are correct.">>
                 ELSE <<"Please review your query and the error details.">>
         IN JsonDumps(Dict([
                 error |-> Str(<<"SPARQL query execution failed.">>),
                 original_error_message |-> error_msg,
                 error_type |-> error_type,
                 query |-> original_query,
                 suggestion |-> Str(suggestion)]))
    ELSE raw_result

-----------------------------------------------------------------------------
(* The query texts: the f-strings of the source, and the caller's queries.  *)

\* the f-string get_entity_properties builds (one character per element)
properties_query(entity_id) ==
    <<"\n", " ", " ", " ", " ", "#", " ", "F", "e", "t", "c", "h", "e", "s", " ",
      "p", "r", "o", "p", "e", "r", "t", "i", "e", "s", " ", "a", "n", "d", " ",
      "t", "h", "e", "i", "r", " ", "v", "a", "l", "u", "e", "s", " ", "f", "o",
      "r", " ", "a", " ", "g", "i", "v", "e", "n", " ", "e", "n", "t", "i", "t",
      "y", ".", "\n", " ", " ", " ", " ", "#", " ", "U", "s", "e", "s", " ", "a",
      " ", "s", "u", "b", "q", "u", "e", "r", "y", " ", "t", "o", " ", "g", "e",
      "t", " ", "c", "o", "r", "e", " ", "d", "a", "t", "a", " ", "b", "e", "f",
      "o", "r", "e", " ", "f", "e", "t", "c", "h", "i", "n", "g", " ", "l", "a",
      "b", "e", "l", "s", " ", "f", "o", "r", " ", "e", "f", "f", "i", "c", "i",
      "e", "n", "c", "y", ".", "\n", " ", " ", " ", " ", "S", "E", "L", "E", "C",
      "T", " ", "?", "p", "r", "o", "p", "e", "r", "t", "y", " ", "?", "p", "r",
      "o", "p", "e", "r", "t", "y", "L", "a", "b", "e", "l", " ", "?", "v", "a",
      "l", "u", "e", " ", "?", "v", "a", "l", "u", "e", "L", "a", "b", "e", "l",
      "\n", " ", " ", " ", " ", "W", "H", "E", "R", "E", " ", "{", "\n", " ", " ",
      " ", " ", " ", " ", "{", "\n", " ", " ", " ", " ", " ", " ", " ", " ", "S",
      "E", "L", "E", "C", "T", " ", "?", "p", "r", "o", "p", "e", "r", "t", "y",
      " ", "?", "v", "a", "l", "u", "e", "\n", " ", " ", " ", " ", " ", " ", " ",
      " ", "W", "H", "E", "R", "E", " ", "{", "\n", " ", " ", " ", " ", " ", " ",
      " ", " ", " ", " ", "#", " ", "C", "o", "r", "e", " ", "q", "u", "e", "r",
      "y", " ", "t", "o", " ", "g", "e", "t", " ", "p", "r", "o", "p", "e", "r",
      "t", "y", "-", "v", "a", "l", "u", "e", " ", "p", "a", "i", "r", "s", " ",
      "f", "o", "r", " ", "t", "h", "e", " ", "e", "n", "t", "i", "t", "y", "\n",
      " ", " ", " ", " ", " ", " ", " ", " ", " ", " ", "w", "d", ":">>
    \o entity_id
    \o <<" ", "?", "p", " ", "?", "s", "t", "a", "t", "e", "m", "e", "n", "t", ".",
      " ", "#", " ", "?", "p", " ", "i", "s", " ", "t", "h", "e", " ", "p", "r",
      "o", "p", "e", "r", "t", "y", " ", "p", "r", "e", "d", "i", "c", "a", "t",
      "e", "\n", " ", " ", " ", " ", " ", " ", " ", " ", " ", " ", "?", "s", "t",
      "a", "t", "e", "m", "e", "n", "t", " ", "?", "p", "s", " ", "?", "v", "a",
      "l", "u", "e", ".", " ", " ", " ", " ", " ", " ", "#", " ", "?", "p", "s",
      " ", "i", "s", " ", "t", "h", "e", " ", "p", "r", "o", "p", "e", "r", "t",
      "y", " ", "s", "t", "a", "t", "e", "m", "e", "n", "t", " ", "v", "a", "l",
      "u", "e", " ", "p", "r", "e", "d", "i", "c", "a", "t", "e", "\n", "\n", " ",
      " ", " ", " ", " ", " ", " ", " ", " ", " ", "#", " ", "L", "i", "n", "k",
      " ", "p", "r", "e", "d", "i", "c", "a", "t", "e", "s", " ", "t", "o", " ",
      "a", "c", "t", "u", "a", "l", " ", "p", "r", "o", "p", "e", "r", "t", "y",
      " ", "e", "n", "t", "i", "t", "i", "e", "s", "\n", " ", " ", " ", " ", " ",
      " ", " ", " ", " ", " ", "?", "p", "r", "o", "p", "e", "r", "t", "y", " ",
      "w", "i", "k", "i", "b", "a", "s", "e", ":", "c", "l", "a", "i", "m", " ",
      "?", "p", ".", "\n", " ", " ", " ", " ", " ", " ", " ", " ", " ", " ", "?",
      "p", "r", "o", "p", "e", "r", "t", "y", " ", "w", "i", "k", "i", "b", "a",
      "s", "e", ":", "s", "t", "a", "t", "e", "m", "e", "n", "t", "P", "r", "o",
      "p", "e", "r", "t", "y", " ", "?", "p", "s", ".", "\n", " ", " ", " ", " ",
      " ", " ", " ", " ", "}", "\n", " ", " ", " ", " ", " ", " ", " ", " ", "L",
      "I", "M", "I", "T", " ", "5", "0", "\n", " ", " ", " ", " ", " ", " ", "}",
      "\n", " ", " ", " ", " ", " ", " ", "#", " ", "A", "p", "p", "l", "y", " ",
      "l", "a", "b", "e", "l", "s", " ", "t", "o", " ", "t", "h", "e", " ", "r",
      "e", "s", "u", "l", "t", "s", " ", "o", "f", " ", "t", "h", "e", " ", "s",
      "u", "b", "q", "u", "e", "r", "y", "\n", " ", " ", " ", " ", " ", " ", "S",
      "E", "R", "V", "I", "C", "E", " ", "w", "i", "k", "i", "b", "a", "s", "e",
      ":", "l", "a", "b", "e", "l", " ", "{", " ", "b", "d", ":", "s", "e", "r",
      "v", "i", "c", "e", "P", "a", "r", "a", "m", " ", "w", "i", "k", "i", "b",
      "a", "s", "e", ":", "l", "a", "n", "g", "u", "a", "g", "e", " ", "\"", "e",
      "n", "\"", ".", " ", "}", "\n", " ", " ", " ", " ", "}", "\n", " ", " ",
      " ", " ">>

\* find_entity_facts: the f-string of the "specific property" branch (one character per element)
facts_query_for_property(entity_id, property_id) ==
    <<"\n", " ", " ", " ", " ", " ", " ", " ", " ", "S", "E", "L", "E", "C", "T",
      " ", "?", "v", "a", "l", "u", "e", " ", "?", "v", "a", "l", "u", "e", "L",
      "a", "b", "e", "l", "\n", " ", " ", " ", " ", " ", " ", " ", " ", "W", "H",
      "E", "R", "E", " ", "{", "\n", " ", " ", " ", " ", " ", " ", " ", " ", " ",
      " ", "w", "d", ":">>
    \o entity_id
    \o <<" ", "w", "d", "t", ":">>
    \o property_id
    \o <<" ", "?", "v", "a", "l", "u", "e", ".", "\n", " ", " ", " ", " ", " ", " ",
      " ", " ", " ", " ", "S", "E", "R", "V", "I", "C", "E", " ", "w", "i", "k",
      "i", "b", "a", "s", "e", ":", "l", "a", "b", "e", "l", " ", "{", " ", "b",
      "d", ":", "s", "e", "r", "v", "i", "c", "e", "P", "a", "r", "a", "m", " ",
      "w", "i", "k", "i", "b", "a", "s", "e", ":", "l", "a", "n", "g", "u", "a",
      "g", "e", " ", "\"", "e", "n", "\"", ".", " ", "}", "\n", " ", " ", " ",
      " ", " ", " ", " ", " ", "}", "\n", " ", " ", " ", " ", " ", " ", " ", " ">>

\* find_entity_facts: the f-string of the "general entity info" branch (one character per element)
facts_query_general(entity_id) ==
    <<"\n", " ", " ", " ", " ", " ", " ", " ", " ", "#", " ", "G", "e", "n", "e",
      "r", "a", "l", " ", "e", "n", "t", "i", "t", "y", " ", "i", "n", "f", "o",
      ":", " ", "F", "e", "t", "c", "h", " ", "c", "o", "r", "e", " ", "d", "a",
      "t", "a", " ", "t", "h", "e", "n", " ", "l", "a", "b", "e", "l", "s", " ",
      "f", "o", "r", " ", "e", "f", "f", "i", "c", "i", "e", "n", "c", "y", ".",
      "\n", " ", " ", " ", " ", " ", " ", " ", " ", "S", "E", "L", "E", "C", "T",
      " ", "?", "p", "r", "o", "p", "e", "r", "t", "y", " ", "?", "p", "r", "o",
      "p", "e", "r", "t", "y", "L", "a", "b", "e", "l", " ", "?", "v", "a", "l",
      "u", "e", " ", "?", "v", "a", "l", "u", "e", "L", "a", "b", "e", "l", "\n",
      " ", " ", " ", " ", " ", " ", " ", " ", "W", "H", "E", "R", "E", " ", "{",
      "\n", " ", " ", " ", " ", " ", " ", " ", " ", " ", " ", "{", "\n", " ", " ",
      " ", " ", " ", " ", " ", " ", " ", " ", " ", " ", "S", "E", "L", "E", "C",
      "T", " ", "?", "p", "r", "o", "p", "e", "r", "t", "y", " ", "?", "v", "a",
      "l", "u", "e", "\n", " ", " ", " ", " ", " ", " ", " ", " ", " ", " ", " ",
      " ", "W", "H", "E", "R", "E", " ", "{", "\n", " ", " ", " ", " ", " ", " ",
      " ", " ", " ", " ", " ", " ", " ", " ", "w", "d", ":">>
    \o entity_id
    \o <<" ", "?", "p", " ", "?", "s", "t", "a", "t", "e", "m", "e", "n", "t", ".",
      "\n", " ", " ", " ", " ", " ", " ", " ", " ", " ", " ", " ", " ", " ", " ",
      "?", "s", "t", "a", "t", "e", "m", "e", "n", "t", " ", "?", "p", "s", " ",
      "?", "v", "a", "l", "u", "e", ".", "\n", "\n", " ", " ", " ", " ", " ", " ",
      " ", " ", " ", " ", " ", " ", " ", " ", "?", "p", "r", "o", "p", "e", "r",
      "t", "y", " ", "w", "i", "k", "i", "b", "a", "s", "e", ":", "c", "l", "a",
      "i", "m", " ", "?", "p", ".", "\n", " ", " ", " ", " ", " ", " ", " ", " ",
      " ", " ", " ", " ", " ", " ", "?", "p", "r", "o", "p", "e", "r", "t", "y",
      " ", "w", "i", "k", "i", "b", "a", "s", "e", ":", "s", "t", "a", "t", "e",
      "m", "e", "n", "t", "P", "r", "o", "p", "e", "r", "t", "y", " ", "?", "p",
      "s", ".", "\n", " ", " ", " ", " ", " ", " ", " ", " ", " ", " ", " ", " ",
      "}", "\n", " ", " ", " ", " ", " ", " ", " ", " ", " ", " ", " ", " ", "L",
      "I", "M", "I", "T", " ", "1", "0", "\n", " ", " ", " ", " ", " ", " ", " ",
      " ", " ", " ", "}", "\n", " ", " ", " ", " ", " ", " ", " ", " ", " ", " ",
      "S", "E", "R", "V", "I", "C", "E", " ", "w", "i", "k", "i", "b", "a", "s",
      "e", ":", "l", "a", "b", "e", "l", " ", "{", " ", "b", "d", ":", "s", "e",
      "r", "v", "i", "c", "e", "P", "a", "r", "a", "m", " ", "w", "i", "k", "i",
      "b", "a", "s", "e", ":", "l", "a", "n", "g", "u", "a", "g", "e", " ", "\"",
      "e", "n", "\"", ".", " ", "}", "\n", " ", " ", " ", " ", " ", " ", " ", " ",
      "}", "\n", " ", " ", " ", " ", " ", " ", " ", " ">>

\* get_related_entities: the f-string of the "specific relation" branch (one character per element)
related_query_for_relation(entity_id, relation_property, limit) ==
    <<"\n", " ", " ", " ", " ", " ", " ", " ", " ", "S", "E", "L", "E", "C", "T",
      " ", "?", "r", "e", "l", "a", "t", "e", "d", " ", "?", "r", "e", "l", "a",
      "t", "e", "d", "L", "a", "b", "e", "l", "\n", " ", " ", " ", " ", " ", " ",
      " ", " ", "W", "H", "E", "R", "E", " ", "{", "\n", " ", " ", " ", " ", " ",
      " ", " ", " ", " ", " ", "w", "d", ":">>
    \o entity_id
    \o <<" ", "w", "d", "t", ":">>
    \o relation_property
    \o <<" ", "?", "r", "e", "l", "a", "t", "e", "d", ".", "\n", " ", " ", " ", " ",
      " ", " ", " ", " ", " ", " ", "S", "E", "R", "V", "I", "C", "E", " ", "w",
      "i", "k", "i", "b", "a", "s", "e", ":", "l", "a", "b", "e", "l", " ", "{",
      " ", "b", "d", ":", "s", "e", "r", "v", "i", "c", "e", "P", "a", "r", "a",
      "m", " ", "w", "i", "k", "i", "b", "a", "s", "e", ":", "l", "a", "n", "g",
      "u", "a", "g", "e", " ", "\"", "e", "n", "\"", ".", " ", "}", "\n", " ",
      " ", " ", " ", " ", " ", " ", " ", "}", "\n", " ", " ", " ", " ", " ", " ",
      " ", " ", "L", "I", "M", "I", "T", " ">>
    \o limit
    \o <<"\n", " ", " ", " ", " ", " ", " ", " ", " ">>

\* get_related_entities: the f-string of the "any relation" branch (one character per element)
related_query_any(entity_id, limit) ==
    <<"\n", " ", " ", " ", " ", " ", " ", " ", " ", "#", " ", "F", "i", "n", "d",
      " ", "r", "e", "l", "a", "t", "e", "d", " ", "e", "n", "t", "i", "t", "i",
      "e", "s", ":", " ", "A", "p", "p", "l", "y", " ", "L", "I", "M", "I", "T",
      " ", "b", "e", "f", "o", "r", "e", " ", "f", "e", "t", "c", "h", "i", "n",
      "g", " ", "l", "a", "b", "e", "l", "s", ".", "\n", " ", " ", " ", " ", " ",
      " ", " ", " ", "S", "E", "L", "E", "C", "T", " ", "?", "r", "e", "l", "a",
      "t", "i", "o", "n", " ", "?", "r", "e", "l", "a", "t", "i", "o", "n", "L",
      "a", "b", "e", "l", " ", "?", "r", "e", "l", "a", "t", "e", "d", " ", "?",
      "r", "e", "l", "a", "t", "e", "d", "L", "a", "b", "e", "l", "\n", " ", " ",
      " ", " ", " ", " ", " ", " ", "W", "H", "E", "R", "E", " ", "{", "\n", " ",
      " ", " ", " ", " ", " ", " ", " ", " ", " ", "{", "\n", " ", " ", " ", " ",
      " ", " ", " ", " ", " ", " ", " ", " ", "S", "E", "L", "E", "C", "T", " ",
      "?", "r", "e", "l", "a", "t", "i", "o", "n", " ", "?", "r", "e", "l", "a",
      "t", "e", "d", "\n", " ", " ", " ", " ", " ", " ", " ", " ", " ", " ", " ",
      " ", "W", "H", "E", "R", "E", " ", "{", "\n", " ", " ", " ", " ", " ", " ",
      " ", " ", " ", " ", " ", " ", " ", " ", "w", "d", ":">>
    \o entity_id
    \o <<" ", "?", "p", " ", "?", "r", "e", "l", "a", "t", "e", "d", ".", "\n", " ",
      " ", " ", " ", " ", " ", " ", " ", " ", " ", " ", " ", " ", " ", "?", "p",
      "r", "o", "p", "e", "r", "t", "y", " ", "w", "i", "k", "i", "b", "a", "s",
      "e", ":", "d", "i", "r", "e", "c", "t", "C", "l", "a", "i", "m", " ", "?",
      "p", ".", "\n", " ", " ", " ", " ", " ", " ", " ", " ", " ", " ", " ", " ",
      " ", " ", "B", "I", "N", "D", "(", "?", "p", "r", "o", "p", "e", "r", "t",
      "y", " ", "a", "s", " ", "?", "r", "e", "l", "a", "t", "i", "o", "n", ")",
      "\n", " ", " ", " ", " ", " ", " ", " ", " ", " ", " ", " ", " ", " ", " ",
      "#", " ", "E", "n", "s", "u", "r", "e", " ", "?", "r", "e", "l", "a", "t",
      "e", "d", " ", "i", "s", " ", "a", " ", "W", "i", "k", "i", "d", "a", "t",
      "a", " ", "e", "n", "t", "i", "t", "y", "\n", " ", " ", " ", " ", " ", " ",
      " ", " ", " ", " ", " ", " ", " ", " ", "F", "I", "L", "T", "E", "R", "(",
      "S", "T", "R", "S", "T", "A", "R", "T", "S", "(", "S", "T", "R", "(", "?",
      "r", "e", "l", "a", "t", "e", "d", ")", ",", " ", "\"", "h", "t", "t", "p",
      ":", "/", "/", "w", "w", "w", ".", "w", "i", "k", "i", "d", "a", "t", "a",
      ".", "o", "r", "g", "/", "e", "n", "t", "i", "t", "y", "/", "\"", ")", ")",
      "\n", " ", " ", " ", " ", " ", " ", " ", " ", " ", " ", " ", " ", "}", "\n",
      " ", " ", " ", " ", " ", " ", " ", " ", " ", " ", " ", " ", "L", "I", "M",
      "I", "T", " ">>
    \o limit
    \o <<"\n", " ", " ", " ", " ", " ", " ", " ", " ", " ", " ", "}", "\n", " ", " ",
      " ", " ", " ", " ", " ", " ", " ", " ", "S", "E", "R", "V", "I", "C", "E",
      " ", "w", "i", "k", "i", "b", "a", "s", "e", ":", "l", "a", "b", "e", "l",
      " ", "{", " ", "b", "d", ":", "s", "e", "r", "v", "i", "c", "e", "P", "a",
      "r", "a", "m", " ", "w", "i", "k", "i", "b", "a", "s", "e", ":", "l", "a",
      "n", "g", "u", "a", "g", "e", " ", "\"", "e", "n", "\"", ".", " ", "}", "\n",
      " ", " ", " ", " ", " ", " ", " ", " ", "}", "\n", " ", " ", " ", " ", " ",
      " ", " ", " ">>


\* 'ASK { ?s ?p ?o }': accepted by the validator
AskQuery ==
    <<"A", "S", "K", " ", "{", " ", "?", "s", " ", "?", "p", " ", "?", "o",
      " ", "}">>

\* 'SELECT ?x WHERE { ?x ?p ?o . } LIMIT 1': an ordinary SELECT query
SelectQuery ==
    <<"S", "E", "L", "E", "C", "T", " ", "?", "x", " ", "W", "H", "E", "R",
      "E", " ", "{", " ", "?", "x", " ", "?", "p", " ", "?", "o", " ", ".",
      " ", "}", " ", "L", "I", "M", "I", "T", " ", "1">>

\* 'SELECT?x{?x ?p ?o}': a SELECT query written without optional whitespace
TightSelectQuery ==
    <<"S", "E", "L", "E", "C", "T", "?", "x", "{", "?", "x", " ", "?", "p",
      " ", "?", "o", "}">>

\* 'ASK { ?s ?p ?o': a query with an unclosed brace
UnbalancedQuery ==
    <<"A", "S", "K", " ", "{", " ", "?", "s", " ", "?", "p", " ", "?", "o">>

\* 'ASK {', 'This line is not valid.', '?s ?p ?o .', '}' on four lines: the
\* query of test_execute_sparql_with_problematic_lines, with a line of prose
NoisyQuery ==
    <<"A", "S", "K", " ", "{", "\n", "T", "h", "i", "s", " ", "l", "i",
      "n", "e", " ", "i", "s", " ", "n", "o", "t", " ", "v", "a", "l", "i",
      "d", ".", "\n", "?", "s", " ", "?", "p", " ", "?", "o", " ", ".",
      "\n", "}">>

UserQueries == {AskQuery, SelectQuery, TightSelectQuery, UnbalancedQuery, NoisyQuery}

\* the locals a tool keeps across its execute_sparql call
NoLocals == [entity_id |-> None, metadata |-> None, property_id |-> None,
             property_name |-> None, query |-> None]

\* find_entity_facts, lines 420-492: the lookups made before the SPARQL step.
\* search_result, metadata and property_result are what search_entity,
\* get_entity_metadata and search_property return if they are called.  The
\* outcome is the value returned early (done), or the locals at line 495;
\* calls lists the wikidata_api functions called, in order.
find_entity_facts_before(entity_name, property_name, search_result, metadata_result, property_result) ==
    LET entity_id_json_str == search_wikidata_entity(entity_name, search_result)
        entity_id_data == JsonLoads(entity_id_json_str)
        entity_id == entity_id_json_str
        metadata_json_str == get_wikidata_metadata(entity_id, metadata_result)
        metadata == JsonLoads(metadata_json_str)
        property_id_json_str == search_wikidata_property(property_name, property_result)
        property_id_data == JsonLoads(property_id_json_str)
        property_id == IF Truthy(property_name) THEN property_id_json_str ELSE None
        searched == <<Event("search_entity", 0, SearchOutcome(search_result),
                            search_result)>>
        looked_up == searched \o <<Event("get_entity_metadata", 0,
                                         MetadataOutcome(metadata_result),
                                         metadata_result)>>
        calls == looked_up
                 \o (IF Truthy(property_name)
                     THEN <<Event("search_property", 0, SearchOutcome(property_result),
                                  property_result)>>
                     ELSE <<>>)
    IN
    IF entity_id_data.ok /\ HasKey(entity_id_data.val, "error")
    THEN [done |-> TRUE, val |-> entity_id_json_str, calls |-> searched]
    ELSE IF ~metadata.ok
    THEN [done |-> TRUE,
          val |-> JsonDumps(Dict([
                     error |-> Str(<<"Failed to parse metadata response.">>),
                     details |-> metadata_json_str,
                     suggestion |-> Str(<<"Metadata service might have returned an unexpected format.">>)])),
          calls |-> looked_up]
    ELSE IF HasKey(metadata.val, "error")
    THEN [done |-> TRUE,
          val |-> JsonDumps(Dict(
                     ("context" :> Str(<<"Error fetching metadata for entity '">>
                                       \o entity_name.parts \o <<"' (ID: ">>
                                       \o entity_id.parts \o <<").">>))
                     @@ metadata.val.d)),
          calls |-> looked_up]
    ELSE IF /\ Truthy(property_name)
            /\ property_id_data.ok
            /\ HasKey(property_id_data.val, "error")
    THEN [done |-> TRUE,
          val |-> JsonDumps(Dict([
                     entity_found |-> metadata.val,
                     error_searching_property |-> property_id_data.val,
                     suggestion |-> Str(<<"Could not find property '">>
                                        \o property_name.parts
                                        \o <<"' while looking up facts for '">>
                                        \o entity_name.parts \o <<"'.">>)])),
          calls |-> calls]
    ELSE [done |-> FALSE,
          locals |-> [entity_id |-> entity_id, metadata |-> metadata.val,
                      property_id |-> property_id, property_name |-> property_name,
                      query |-> IF Truthy(property_id)
                                THEN Str(facts_query_for_property(entity_id.parts,
                                                                  property_id.parts))
                                ELSE Str(facts_query_general(entity_id.parts))],
          calls |-> calls]

\* find_entity_facts, lines 497-518: facts_json_str is what its
\* execute_wikidata_sparql call returned
find_entity_facts_after(l, facts_json_str) ==
    LET facts_data == JsonLoads(facts_json_str) IN
    IF ~facts_data.ok
    THEN JsonDumps(Dict([
            error |-> Str(<<"Failed to parse SPARQL result from internal call to execute_wikidata_sparql.">>),
            details |-> Str(<<"The response from execute_wikidata_sparql was not valid JSON.">>),
            context |-> Dict([entity_id |-> l.entity_id, property_id |-> l.property_id,
                              query |-> l.query]),
            suggestion |-> Str(<<"This indicates an internal issue with the server's SPARQL execution tool chain.">>)]))
    ELSE JsonDumps(Dict([
            entity |-> l.metadata,
            property |-> IF Truthy(l.property_id)
                         THEN Dict([id |-> l.property_id, name |-> l.property_name])
                         ELSE None,
            facts |-> facts_data.val]))

\* get_related_entities, lines 533-562: the query it builds
related_entities_query(entity_id, relation_property, limit) ==
    IF Truthy(relation_property)
    THEN Str(related_query_for_relation(entity_id.parts, relation_property.parts, limit))
    ELSE Str(related_query_any(entity_id.parts, limit))

\* get_related_entities, lines 567-580: related_entities_json_str is what its
\* execute_wikidata_sparql call returned
get_related_entities_after(l, related_entities_json_str) ==
    IF ~JsonLoads(related_entities_json_str).ok
    THEN JsonDumps(Dict([
            error |-> Str(<<"Failed to parse SPARQL result from internal call to execute_wikidata_sparql for related entities.">>),
            details |-> Str(<<"The response was not valid JSON.">>),
            context |-> Dict([entity_id |-> l.entity_id,
                              relation_property |-> l.property_id,
                              query |-> l.query]),
            suggestion |-> Str(<<"This indicates an internal issue with the server's SPARQL execution tool chain.">>)]))
    ELSE related_entities_json_str


-----------------------------------------------------------------------------
(* wikidata_api.execute_sparql, lines 189-251: the line filter and the     *)
(* prefix block, on texts given one character per element.                 *)

\* lines 189-195
allowed_keywords ==
    {<<"P", "R", "E", "F", "I", "X">>, <<"S", "E", "L", "E", "C", "T">>,
     <<"A", "S", "K">>, <<"C", "O", "N", "S", "T", "R", "U", "C", "T">>,
     <<"D", "E", "S", "C", "R", "I", "B", "E">>, <<"I", "N", "S", "E", "R", "T">>,
     <<"F", "I", "L", "T", "E", "R">>, <<"B", "I", "N", "D">>,
     <<"V", "A", "L", "U", "E", "S">>, <<"O", "P", "T", "I", "O", "N", "A", "L">>,
     <<"U", "N", "I", "O", "N">>, <<"G", "R", "A", "P", "H">>,
     <<"S", "E", "R", "V", "I", "C", "E">>, <<"M", "I", "N", "U", "S">>,
     <<"W", "H", "E", "R", "E">>, <<"G", "R", "O", "U", "P">>,
     <<"H", "A", "V", "I", "N", "G">>, <<"O", "R", "D", "E", "R">>,
     <<"L", "I", "M", "I", "T">>, <<"O", "F", "F", "S", "E", "T">>,
     <<"D", "A", "T", "A">>}

\* the line boundaries of str.splitlines among the characters of the texts
LineBreaks == {"\n", "\r", "\f"}

\* positions of s where a line ends; the "\n" of a "\r\n" ends none of its own
LineEnds(s) ==
    {i \in DOMAIN s : s[i] \in LineBreaks /\ ~(s[i] = "\n" /\ i > 1 /\ s[i - 1] = "\r")}

\* the last position of the line boundary that starts at position b
BoundaryEnd(s, b) ==
    IF s[b] = "\r" /\ b < Len(s) /\ s[b + 1] = "\n" THEN b + 1 ELSE b

\* s.splitlines(): the lines without their boundaries; a text that ends
\* with a boundary has no empty last line
splitlines(s) ==
    LET ends == LineEnds(s)
        nth(k) == CHOOSE b \in ends : Cardinality({x \in ends : x < b}) = k - 1
        start(k) == IF k = 1 THEN 1 ELSE BoundaryEnd(s, nth(k - 1)) + 1
        count == Cardinality(ends)
        closed == [k \in 1..count |-> SubSeq(s, start(k), nth(k) - 1)]
        rest == SubSeq(s, start(count + 1), Len(s))
    IN IF rest = <<>> THEN closed ELSE Append(closed, rest)

\* s.strip()
strip(s) ==
    LET kept == {i \in DOMAIN s : ~IsSpace(s[i])} IN
    IF kept = {} THEN <<>>
    ELSE SubSeq(s, CHOOSE i \in kept : \A j \in kept : i <= j,
                   CHOOSE i \in kept : \A j \in kept : i >= j)

\* s.upper()
upper(s) == [i \in DOMAIN s |-> ToUpper(s[i])]

\* s.startswith(w)
startswith(s, w) == Len(s) >= Len(w) /\ SubSeq(s, 1, Len(w)) = w

\* c in s, for a one-character c
HasChar(s, c) == \E i \in DOMAIN s : s[i] = c

\* "\n".join(lines)
RECURSIVE join(_)
join(lines) ==
    IF lines = <<>> THEN <<>>
    ELSE IF Len(lines) = 1 THEN lines[1]
    ELSE lines[1] \o <<"\n">> \o join(Tail(lines))

\* line 206: stripped_line.upper().split(" ", 1)[0]
first_word_upper(stripped_line) ==
    LET u == upper(stripped_line)
        spaces == {i \in DOMAIN u : u[i] = " "}
    IN IF spaces = {} THEN u
       ELSE SubSeq(u, 1, (CHOOSE i \in spaces : \A j \in spaces : i <= j) - 1)

\* lines 211-215 ("wd:", "wdt:" and "rdf:" are in a line only if ":" is)
is_likely_triple_pattern(stripped_line) ==
    /\ HasChar(stripped_line, ":") \/ HasChar(stripped_line, "?")
    /\ stripped_line # <<>>
    /\ stripped_line[Len(stripped_line)] = "."

\* lines 199-222: the loop body appends line_content to filtered_query_lines
LineKept(line_content) ==
    LET stripped_line == strip(line_content) IN
    IF stripped_line = <<>> \/ stripped_line[1] = "#" THEN FALSE
    ELSE \/ first_word_upper(stripped_line) \in allowed_keywords
         \/ \E c \in {"{", "}", ";", ","} : HasChar(stripped_line, c)
         \/ is_likely_triple_pattern(stripped_line)

\* lines 197-222
filtered_query_lines(q) == SelectSeq(splitlines(q), LineKept)

\* mutant: the kept lines put on one line
processed_query_on_one_line(q) ==
    LET lines == filtered_query_lines(q) IN
    [i \in DOMAIN join(lines) |-> IF join(lines)[i] = "\n" THEN " " ELSE join(lines)[i]]

\* line 225
processed_query(q) == join(filtered_query_lines(q))

\* lines 228-235: the triple-quoted text
prefixes ==
    <<"\n", " ", " ", " ", " ", " ", " ", " ", " ", " ", " ", " ", " ", "P", "R", "E",
      "F", "I", "X", " ", "w", "d", ":", " ", "<", "h", "t", "t", "p", ":", "/", "/",
      "w", "w", "w", ".", "w", "i", "k", "i", "d", "a", "t", "a", ".", "o", "r", "g",
      "/", "e", "n", "t", "i", "t", "y", "/", ">", "\n", " ", " ", " ", " ", " ", " ",
      " ", " ", " ", " ", " ", " ", "P", "R", "E", "F", "I", "X", " ", "w", "d", "t",
      ":", " ", "<", "h", "t", "t", "p", ":", "/", "/", "w", "w", "w", ".", "w", "i",
      "k", "i", "d", "a", "t", "a", ".", "o", "r", "g", "/", "p", "r", "o", "p", "/",
      "d", "i", "r", "e", "c", "t", "/", ">", "\n", " ", " ", " ", " ", " ", " ", " ",
      " ", " ", " ", " ", " ", "P", "R", "E", "F", "I", "X", " ", "p", ":", " ", "<",
      "h", "t", "t", "p", ":", "/", "/", "w", "w", "w", ".", "w", "i", "k", "i", "d",
      "a", "t", "a", ".", "o", "r", "g", "/", "p", "r", "o", "p", "/", ">", "\n", " ",
      " ", " ", " ", " ", " ", " ", " ", " ", " ", " ", " ", "P", "R", "E", "F", "I",
      "X", " ", "p", "s", ":", " ", "<", "h", "t", "t", "p", ":", "/", "/", "w", "w",
      "w", ".", "w", "i", "k", "i", "d", "a", "t", "a", ".", "o", "r", "g", "/", "p",
      "r", "o", "p", "/", "s", "t", "a", "t", "e", "m", "e", "n", "t", "/", ">", "\n",
      " ", " ", " ", " ", " ", " ", " ", " ", " ", " ", " ", " ", "P", "R", "E", "F",
      "I", "X", " ", "w", "i", "k", "i", "b", "a", "s", "e", ":", " ", "<", "h", "t",
      "t", "p", ":", "/", "/", "w", "i", "k", "i", "b", "a", ".", "s", "e", "/", "o",
      "n", "t", "o", "l", "o", "g", "y", "#", ">", "\n", " ", " ", " ", " ", " ", " ",
      " ", " ", " ", " ", " ", " ", "P", "R", "E", "F", "I", "X", " ", "b", "d", ":",
      " ", "<", "h", "t", "t", "p", ":", "/", "/", "w", "w", "w", ".", "b", "i", "g",
      "d", "a", "t", "a", ".", "c", "o", "m", "/", "r", "d", "f", "#", ">", "\n", " ",
      " ", " ", " ", " ", " ", " ", " ", " ", " ", " ", " ">>

\* line 247: prefixes.strip()
prefixes_strip == strip(prefixes)

\* line.strip().upper().startswith("PREFIX")
IsPrefixLine(line) == startswith(upper(strip(line)), <<"P", "R", "E", "F", "I", "X">>)

\* line 243
has_non_prefix_lines(lines) ==
    \E i \in DOMAIN lines : strip(lines[i]) # <<>> /\ ~IsPrefixLine(lines[i])

\* mutant: the block is put before every text
full_query_always_prefixed(q) ==
    prefixes_strip \o <<"\n">> \o processed_query(q)

\* lines 245-251: the text handed to sparql.setQuery
full_query(q) ==
    LET lines == filtered_query_lines(q) IN
    IF /\ processed_query(q) # <<>>
       /\ has_non_prefix_lines(lines)
       /\ ~\E i \in DOMAIN lines : IsPrefixLine(lines[i])
    THEN prefixes_strip \o <<"\n">> \o processed_query(q)
    ELSE processed_query(q)

-----------------------------------------------------------------------------
(* The state machine: one tool invocation at a time, from the call to the  *)
(* return; execute_sparql's retry loop is followed attempt by attempt.     *)

NoExc == [cls |-> "none", msg |-> <<>>]

\* the server has served no request: active_sessions = {} (server_sse.py, line 954)
NoServer ==
    /\ running = 0
    /\ active_sessions = <<>>
    /\ connections = <<>>
    /\ uuids = 0

\* no tool has been called
Idle ==
    /\ pc = "idle"
    /\ tool = "none"
    /\ sparql_query = None
    /\ attempt = 0
    /\ backoff_time = INITIAL_BACKOFF
    /\ exec_result = Returns(None)
    /\ locals = NoLocals
    /\ result = None
    /\ raised = NoExc
    /\ trace = <<>>

\* no function has been applied to text
NotApplied == [op |-> "none"]

Init ==
    /\ Idle
    /\ text = <<>>
    /\ applied = NotApplied
    /\ frames = <<>>
    /\ NoServer

\* the tool returns v to its caller
Return(v) ==
    /\ pc' = "done"
    /\ result' = v
    /\ UNCHANGED raised

\* the tool ends with outcome out: a returned value or an exception let out
Finish(out) ==
    IF out.ok
    THEN Return(out.val)
    ELSE /\ pc' = "raised"
         /\ raised' = out.exc
         /\ UNCHANGED result

\* execute_sparql(q) is entered: lines 176-181
EnterExecuteSparql(q) ==
    /\ pc' = "attempting"
    /\ sparql_query' = q
    /\ attempt' = 0
    /\ backoff_time' = INITIAL_BACKOFF
    /\ UNCHANGED <<exec_result, result, raised>>

\* execute_wikidata_sparql(q) up to its execute_sparql call, lines 169-179
\* rejected is what the calling tool makes of the validation error object
EnterExecuteWikidataSparql(q, rejected, calls) ==
    LET validation_result == validate_sparql_query(q.parts) IN
    IF ~validation_result.is_valid
    THEN /\ Return(rejected)
         /\ trace' = calls \o <<Event("validate", 0, "invalid", q)>>
         /\ UNCHANGED <<sparql_query, attempt, backoff_time, exec_result>>
    ELSE /\ EnterExecuteSparql(q)
         /\ trace' = calls \o <<Event("validate", 0, "valid", q)>>

\* lines 168-177: what execute_wikidata_sparql returns for a rejected query
validation_error(q) == validation_failed(validate_sparql_query(q.parts))

CallSearchWikidataEntity ==
    /\ pc = "idle"
    /\ \E query \in EntityNames, search_result \in SearchEntityResults :
          /\ Return(search_wikidata_entity(query, search_result))
          /\ trace' = <<Event("search_entity", 0, SearchOutcome(search_result),
                              search_result)>>
    /\ tool' = "search_wikidata_entity"
    /\ UNCHANGED <<sparql_query, attempt, backoff_time, exec_result, locals>>
    /\ UNCHANGED <<text, applied, frames, running, active_sessions, connections, uuids>>

CallSearchWikidataProperty ==
    /\ pc = "idle"
    /\ \E query \in PropertyNames \ {None}, search_result \in SearchPropertyResults :
          /\ Return(search_wikidata_property(query, search_result))
          /\ trace' = <<Event("search_property", 0, SearchOutcome(search_result),
                              search_result)>>
    /\ tool' = "search_wikidata_property"
    /\ UNCHANGED <<sparql_query, attempt, backoff_time, exec_result, locals>>
    /\ UNCHANGED <<text, applied, frames, running, active_sessions, connections, uuids>>

CallGetWikidataMetadata ==
    /\ pc = "idle"
    /\ \E id \in EntityIds : \E metadata \in EntityMetadataResults(Str(id)) :
          /\ Return(get_wikidata_metadata(Str(id), metadata))
          /\ trace' = <<Event("get_entity_metadata", 0, MetadataOutcome(metadata),
                              metadata)>>
    /\ tool' = "get_wikidata_metadata"
    /\ UNCHANGED <<sparql_query, attempt, backoff_time, exec_result, locals>>
    /\ UNCHANGED <<text, applied, frames, running, active_sessions, connections, uuids>>

\* get_wikidata_properties -> get_entity_properties -> execute_sparql
CallGetWikidataProperties ==
    /\ pc = "idle"
    /\ \E id \in EntityIds :
          /\ EnterExecuteSparql(Str(properties_query(id)))
          /\ locals' = [NoLocals EXCEPT !.entity_id = Str(id)]
    /\ tool' = "get_wikidata_properties"
    /\ trace' = <<>>
    /\ UNCHANGED <<text, applied, frames, running, active_sessions, connections, uuids>>

\* mutant: the verdict is computed but execute_sparql is entered regardless
CallExecuteWikidataSparql_ungated ==
    /\ pc = "idle"
    /\ \E q \in UserQueries :
          /\ EnterExecuteSparql(Str(q))
          /\ trace' = <<Event("validate", 0,
                              IF validate_sparql_query(q).is_valid
                              THEN "valid" ELSE "invalid", Str(q))>>
          /\ locals' = [NoLocals EXCEPT !.query = Str(q)]
    /\ tool' = "execute_wikidata_sparql"
    /\ UNCHANGED <<text, applied, frames, running, active_sessions, connections, uuids>>

CallExecuteWikidataSparql ==
    /\ pc = "idle"
    /\ \E q \in UserQueries :
          /\ EnterExecuteWikidataSparql(Str(q), validation_error(Str(q)), <<>>)
          /\ locals' = [NoLocals EXCEPT !.query = Str(q)]
    /\ tool' = "execute_wikidata_sparql"
    /\ UNCHANGED <<text, applied, frames, running, active_sessions, connections, uuids>>

CallFindEntityFacts ==
    /\ pc = "idle"
    /\ \E entity_name \in EntityNames, property_name \in PropertyNames,
          search_result \in SearchEntityResults,
          property_result \in SearchPropertyResults :
          \E metadata_result \in EntityMetadataResults(search_result) :
             LET before == find_entity_facts_before(entity_name, property_name,
                               search_result, metadata_result, property_result)
                 rejected == find_entity_facts_after(before.locals,
                                 validation_error(before.locals.query))
             IN IF before.done
                THEN /\ Return(before.val)
                     /\ trace' = before.calls
                     /\ locals' = NoLocals
                     /\ UNCHANGED <<sparql_query, attempt, backoff_time, exec_result>>
                ELSE /\ EnterExecuteWikidataSparql(before.locals.query, rejected,
                                                   before.calls)
                     /\ locals' = before.locals
    /\ tool' = "find_entity_facts"
    /\ UNCHANGED <<text, applied, frames, running, active_sessions, connections, uuids>>

CallGetRelatedEntities ==
    /\ pc = "idle"
    /\ \E id \in EntityIds, relation \in {None} \cup {Str(p) : p \in PropertyIds},
          limit \in Limits :
          LET l == [NoLocals EXCEPT !.entity_id = Str(id), !.property_id = relation,
                        !.query = related_entities_query(Str(id), relation, limit)]
              rejected == get_related_entities_after(l, validation_error(l.query))
          IN /\ EnterExecuteWikidataSparql(l.query, rejected, <<>>)
             /\ locals' = l
    /\ tool' = "get_related_entities"
    /\ UNCHANGED <<text, applied, frames, running, active_sessions, connections, uuids>>

\* execute_sparql called directly, as the tests at the end of wikidata_api.py do
CallExecuteSparql ==
    /\ pc = "idle"
    /\ \E q \in UserQueries : EnterExecuteSparql(Str(q))
    /\ tool' = "execute_sparql"
    /\ locals' = NoLocals
    /\ trace' = <<>>
    /\ UNCHANGED <<text, applied, frames, running, active_sessions, connections, uuids>>

\* the texts execute_sparql is called with in these runs
ExecutedQueries == UserQueries \cup {properties_query(id) : id \in EntityIds}

\* full_query of each of them, worked out once
full_queries == [q \in ExecutedQueries |-> full_query(q)]

\* lines 197-254 in an attempt: the text made from the parameter
made_query(q) == IF q \in ExecutedQueries THEN full_queries[q] ELSE full_query(q)

\* an endpoint call of attempt n: lines 197-254 make the text of the call
\* from the parameter q and hand it to sparql.setQuery
Dispatched(n, out, val, q) ==
    [op |-> "endpoint", n |-> n, out |-> out, val |-> val, sent |-> made_query(q.parts)]

\* one pass of the loop body in which sparql.query().convert() returns:
\* lines 182-256
AttemptSucceeds ==
    /\ pc = "attempting"
    /\ \E results \in Payloads :
          /\ exec_result' = Returns(success_value(results))
          /\ trace' = Append(trace, Dispatched(attempt, "ok", results, sparql_query))
    /\ pc' = "exec_returned"
    /\ UNCHANGED <<tool, sparql_query, attempt, backoff_time, locals, result, raised>>
    /\ UNCHANGED <<text, applied, frames, running, active_sessions, connections, uuids>>

\* mutant: the loop body assigns the filtered and prefixed text to sparql_query
AttemptRaises_query_reassigned ==
    /\ pc = "attempting"
    /\ \E e \in Exceptions :
          /\ trace' = Append(trace, Dispatched(attempt, e.cls, Str(e.msg), sparql_query))
          /\ CASE Handler(e.cls) = "badformed" ->
                    /\ exec_result' = Returns(JsonDumps(error_details(e, attempt, Str(full_query(sparql_query.parts)))))
                    /\ pc' = "exec_returned"
               [] Handler(e.cls) \in {"transient", "generic"} ->
                    IF attempt < MAX_RETRIES - 1
                    THEN /\ pc' = "sleeping"
                         /\ UNCHANGED exec_result
                    ELSE /\ exec_result' = Returns(JsonDumps(error_details(e, attempt, Str(full_query(sparql_query.parts)))))
                         /\ pc' = "exec_returned"
               [] OTHER ->
                    /\ exec_result' = Raises(e)
                    /\ pc' = "exec_returned"
    /\ sparql_query' = Str(full_query(sparql_query.parts))
    /\ UNCHANGED <<tool, attempt, backoff_time, locals, result, raised>>
    /\ UNCHANGED <<text, applied, frames, running, active_sessions, connections, uuids>>

\* one pass of the loop body in which the endpoint call raises e: lines
\* 182-254, then the except clause that catches e, up to its sleep or return
AttemptRaises ==
    /\ pc = "attempting"
    /\ \E e \in Exceptions :
          /\ trace' = Append(trace, Dispatched(attempt, e.cls, Str(e.msg), sparql_query))
          /\ CASE Handler(e.cls) = "badformed" ->
                    /\ exec_result' = Returns(JsonDumps(error_details(e, attempt, sparql_query)))
                    /\ pc' = "exec_returned"
               [] Handler(e.cls) \in {"transient", "generic"} ->
                    IF attempt < MAX_RETRIES - 1
                    THEN /\ pc' = "sleeping"
                         /\ UNCHANGED exec_result
                    ELSE /\ exec_result' = Returns(JsonDumps(error_details(e, attempt, sparql_query)))
                         /\ pc' = "exec_returned"
               [] OTHER ->
                    /\ exec_result' = Raises(e)
                    /\ pc' = "exec_returned"
    /\ UNCHANGED <<tool, sparql_query, attempt, backoff_time, locals, result, raised>>
    /\ UNCHANGED <<text, applied, frames, running, active_sessions, connections, uuids>>

\* mutant: the sleep without "backoff_time *= 2"
Sleep_without_doubling ==
    /\ pc = "sleeping"
    /\ trace' = Append(trace, Event("sleep", backoff_time, "slept", None))
    /\ attempt' = attempt + 1
    /\ pc' = "attempting"
    /\ UNCHANGED <<tool, sparql_query, backoff_time, exec_result, locals, result, raised>>
    /\ UNCHANGED <<text, applied, frames, running, active_sessions, connections, uuids>>

\* time.sleep(backoff_time); backoff_time *= 2; then the for statement takes
\* the next value of attempt or, the range exhausted, falls to lines 297-302
Sleep ==
    /\ pc = "sleeping"
    /\ trace' = Append(trace, Event("sleep", backoff_time, "slept", None))
    /\ backoff_time' = backoff_time * 2
    /\ IF attempt + 1 < MAX_RETRIES
       THEN /\ attempt' = attempt + 1
            /\ pc' = "attempting"
            /\ UNCHANGED exec_result
       ELSE /\ exec_result' = Returns(JsonDumps(final_error_details(sparql_query)))
            /\ pc' = "exec_returned"
            /\ UNCHANGED attempt
    /\ UNCHANGED <<tool, sparql_query, locals, result, raised>>
    /\ UNCHANGED <<text, applied, frames, running, active_sessions, connections, uuids>>

\* execute_sparql has ended; its caller runs to its own end
AfterExecuteSparql ==
    /\ pc = "exec_returned"
    /\ CASE tool = "execute_sparql" -> Finish(exec_result)
         [] tool = "get_wikidata_properties" ->
              Finish(get_wikidata_properties(locals.entity_id,
                                             get_entity_properties(exec_result)))
         [] tool = "execute_wikidata_sparql" ->
              Return(execute_wikidata_sparql_after(sparql_query, exec_result))
         [] tool = "find_entity_facts" ->
              Return(find_entity_facts_after(locals,
                         execute_wikidata_sparql_after(sparql_query, exec_result)))
         [] tool = "get_related_entities" ->
              Return(get_related_entities_after(locals,
                         execute_wikidata_sparql_after(sparql_query, exec_result)))
    /\ UNCHANGED <<tool, sparql_query, attempt, backoff_time, exec_result, locals, trace>>
    /\ UNCHANGED <<text, applied, frames, running, active_sessions, connections, uuids>>

\* the caller has its answer; the server is ready for the next tool call
NextCall ==
    /\ pc \in {"done", "raised"}
    /\ pc' = "idle"
    /\ tool' = "none"
    /\ sparql_query' = None
    /\ attempt' = 0
    /\ backoff_time' = INITIAL_BACKOFF
    /\ exec_result' = Returns(None)
    /\ locals' = NoLocals
    /\ result' = None
    /\ raised' = NoExc
    /\ trace' = <<>>
    /\ UNCHANGED <<text, applied, frames, running, active_sessions, connections, uuids>>

Next ==
    \/ CallSearchWikidataEntity
    \/ CallSearchWikidataProperty
    \/ CallGetWikidataMetadata
    \/ CallGetWikidataProperties
    \/ CallExecuteWikidataSparql
    \/ CallFindEntityFacts
    \/ CallGetRelatedEntities
    \/ CallExecuteSparql
    \/ AttemptSucceeds
    \/ AttemptRaises
    \/ Sleep
    \/ AfterExecuteSparql
    \/ NextCall

Spec == Init /\ [][Next]_vars

\* Python runs a called function on: the endpoint call returns or raises,
\* time.sleep returns, and execute_sparql's caller resumes when it returns.
FairSpec ==
    /\ Spec
    /\ WF_vars(AttemptSucceeds \/ AttemptRaises)
    /\ WF_vars(Sleep)
    /\ WF_vars(AfterExecuteSparql)

-----------------------------------------------------------------------------
(* The validator and the line filter as functions of a text: the text is   *)
(* drawn at the start and the function is applied to it.                   *)

\* longest text of delimiters given to the validator
MaxBracketLen == 4

\* most lines in a text given to the line filter
MaxLines == 2

\* most times the line filter is applied to its own output
MaxPasses == 2

\* all sequences over S of length at most n
SeqsUpTo(S, n) == UNION {[1..k -> S] : k \in 0..n}

\* texts of delimiters and one other character
BracketTexts == SeqsUpTo({"(", ")", "[", "]", "{", "}", "a"}, MaxBracketLen)

\* lines of queries, of the kinds execute_sparql's tests use (lines 313-322,
\* 358-372), and of prose:
\*   AskLine: "ASK {"
\*   TripleLine: "  ?s ?p ?o ."
\*   PrefixedTripleLine: "wd:Q1 wdt:P31 ?o."
\*   CloseLine: "}"
\*   BogusLine: "This line is not valid."
\*   KeywordProseLine: "Where is the data"
\*   CommaProseLine: "First, some prose"
\*   BlankLine: ""
\*   CommentLine: "# a comment: ?x ."
\*   PrefixLine: "PREFIX wd: <http://w/>"
\*   FilterLine: "FILTER (?o > 1)"
\*   BindLine: "BIND (1 AS ?one)"
\*   ValuesLine: "VALUES ?one { 1 }"
\*   OptionalLine: "OPTIONAL { ?o ?p ?x }"
\*   UnionLine: "UNION"
\*   GraphLine: "GRAPH ?g {"
\*   MinusLine: "MINUS { ?s ?p ?o }"
\*   GroupByLine: "GROUP BY ?p"
\*   HavingLine: "HAVING (?c > 0)"
\*   OrderByLine: "ORDER BY ?o"
\*   LimitOffsetLine: "LIMIT 1 OFFSET 0"
AskLine == <<"A", "S", "K", " ", "{">>
TripleLine == <<" ", " ", "?", "s", " ", "?", "p", " ", "?", "o", " ", ".">>
PrefixedTripleLine == <<"w", "d", ":", "Q", "1", " ", "w", "d", "t", ":", "P", "3", "1", " ", "?", "o", ".">>
CloseLine == <<"}">>
BogusLine == <<"T", "h", "i", "s", " ", "l", "i", "n", "e", " ", "i", "s", " ", "n", "o", "t", " ", "v", "a", "l", "i", "d", ".">>
KeywordProseLine == <<"W", "h", "e", "r", "e", " ", "i", "s", " ", "t", "h", "e", " ", "d", "a", "t", "a">>
CommaProseLine == <<"F", "i", "r", "s", "t", ",", " ", "s", "o", "m", "e", " ", "p", "r", "o", "s", "e">>
BlankLine == <<>>
CommentLine == <<"#", " ", "a", " ", "c", "o", "m", "m", "e", "n", "t", ":", " ", "?", "x", " ", ".">>
PrefixLine == <<"P", "R", "E", "F", "I", "X", " ", "w", "d", ":", " ", "<", "h", "t", "t", "p", ":", "/", "/", "w", "/", ">">>
FilterLine == <<"F", "I", "L", "T", "E", "R", " ", "(", "?", "o", " ", ">", " ", "1", ")">>
BindLine == <<"B", "I", "N", "D", " ", "(", "1", " ", "A", "S", " ", "?", "o", "n", "e", ")">>
ValuesLine == <<"V", "A", "L", "U", "E", "S", " ", "?", "o", "n", "e", " ", "{", " ", "1", " ", "}">>
OptionalLine == <<"O", "P", "T", "I", "O", "N", "A", "L", " ", "{", " ", "?", "o", " ", "?", "p", " ", "?", "x", " ", "}">>
UnionLine == <<"U", "N", "I", "O", "N">>
GraphLine == <<"G", "R", "A", "P", "H", " ", "?", "g", " ", "{">>
MinusLine == <<"M", "I", "N", "U", "S", " ", "{", " ", "?", "s", " ", "?", "p", " ", "?", "o", " ", "}">>
GroupByLine == <<"G", "R", "O", "U", "P", " ", "B", "Y", " ", "?", "p">>
HavingLine == <<"H", "A", "V", "I", "N", "G", " ", "(", "?", "c", " ", ">", " ", "0", ")">>
OrderByLine == <<"O", "R", "D", "E", "R", " ", "B", "Y", " ", "?", "o">>
LimitOffsetLine == <<"L", "I", "M", "I", "T", " ", "1", " ", "O", "F", "F", "S", "E", "T", " ", "0">>

ProseLines == {BogusLine, KeywordProseLine, CommaProseLine}
ClauseLines == {FilterLine, BindLine, ValuesLine, OptionalLine, UnionLine, GraphLine,
                MinusLine, GroupByLine, HavingLine, OrderByLine, LimitOffsetLine}
\* a keyword with a tab after it, and a triple with spaces after its period
TabSelectLine == <<"S", "E", "L", "E", "C", "T", "\t", "?", "x">>
PaddedTripleLine == <<"\t", "?", "s", " ", "?", "p", " ", "?", "o", " ", ".", " ", " ">>

LinePool == {AskLine, TripleLine, PrefixedTripleLine, CloseLine, BlankLine, CommentLine,
             PrefixLine, TabSelectLine, PaddedTripleLine} \cup ProseLines \cup ClauseLines

\* the lines that follow the first line of a text
FollowingLines == {TripleLine, CloseLine, BlankLine, PrefixLine, BogusLine,
                   KeywordProseLine, LimitOffsetLine}

\* the empty text, and the texts of at most MaxLines lines: any line of the
\* pool, then lines of FollowingLines
QueryTexts ==
    {<<>>} \cup {join(<<first>> \o ls) : first \in LinePool,
                                         ls \in SeqsUpTo(FollowingLines, MaxLines - 1)}

\* the other variables of a specification that only applies a function
NoCalls == Idle /\ frames = <<>> /\ NoServer

ValidatorInit ==
    /\ NoCalls
    /\ text \in BracketTexts
    /\ applied = NotApplied

\* _validate_sparql_query(text)
Validate ==
    /\ applied = NotApplied
    /\ applied' = [op |-> "validate", verdict |-> validate_sparql_query(text)]
    /\ UNCHANGED <<pc, tool, sparql_query, attempt, backoff_time, exec_result, locals,
                   result, raised, trace, text, frames, running,
                   active_sessions, connections, uuids>>

ValidatorNext == Validate

ValidatorSpec == ValidatorInit /\ [][ValidatorNext]_vars

SanitizerInit ==
    /\ NoCalls
    /\ text \in QueryTexts
    /\ applied = NotApplied

\* lines 197-251 of execute_sparql on text: passes holds processed_query
Sanitize ==
    /\ applied = NotApplied
    /\ applied' = [op |-> "sanitize",
                   passes |-> <<processed_query(text)>>,
                   full_query |-> full_query(text)]
    /\ UNCHANGED <<pc, tool, sparql_query, attempt, backoff_time, exec_result, locals,
                   result, raised, trace, text, frames, running,
                   active_sessions, connections, uuids>>

\* the line filter on its own last output
SanitizeAgain ==
    /\ applied.op = "sanitize"
    /\ Len(applied.passes) < MaxPasses
    /\ applied' = [applied EXCEPT
                      !.passes = Append(@, processed_query(@[Len(@)]))]
    /\ UNCHANGED <<pc, tool, sparql_query, attempt, backoff_time, exec_result, locals,
                   result, raised, trace, text, frames, running,
                   active_sessions, connections, uuids>>

SanitizerNext == Sanitize \/ SanitizeAgain

SanitizerSpec == SanitizerInit /\ [][SanitizerNext]_vars

-----------------------------------------------------------------------------
(* _validate_sparql_query on texts made of clauses, one for each way a     *)
(* check of the function can pass or fail.                                 *)

\* how many clauses a text is made of
MaxClauses == 2

ClosingClause == <<")">>
SelectTightClause == <<"S", "E", "L", "E", "C", "T", "?", "x">>
SelectVarClause == <<"S", "E", "L", "E", "C", "T", " ", "?", "x">>
SelectStarClause == <<"S", "E", "L", "E", "C", "T", " ", "*">>
SelectCallClause == <<"S", "E", "L", "E", "C", "T", " ", "(", "M", "A", "X", "(", "?", "x", ")", " ", "A", "S", " ", "?", "m", ")">>
SelectDotClause == <<"S", "E", "L", "E", "C", "T", " ", ".">>
WhereTightClause == <<"W", "H", "E", "R", "E", "{", "}">>
WhereWordClause == <<"W", "H", "E", "R", "E", " ", "x">>
PrefixTightClause == <<"P", "R", "E", "F", "I", "X", " ", "w", "d", ":", "<", "h", "t", "t", "p", ":", "/", "/", "w", "/", ">">>
PrefixNoUriClause == <<"P", "R", "E", "F", "I", "X", " ", "w", "d", ":", "w">>
PrefixOpenUriClause == <<"P", "R", "E", "F", "I", "X", " ", "w", "d", ":", "<", "h", "t", "t", "p", ":", "/", "/", "w", "/">>
EmptyFilterClause == <<"F", "I", "L", "T", "E", "R", "(", ")">>
FilterClause == <<"F", "I", "L", "T", "E", "R", "(", "?", "x", ")">>
LimitClause == <<"L", "I", "M", "I", "T", " ", "1">>
LimitSpacesClause == <<"L", "I", "M", "I", "T", " ", " ", "1", "0">>
LimitBreakClause == <<"L", "I", "M", "I", "T", "\n", "1">>
LimitWordClause == <<"L", "I", "M", "I", "T", " ", "x">>
OffsetClause == <<"O", "F", "F", "S", "E", "T", " ", "0">>
OffsetSpacesClause == <<"O", "F", "F", "S", "E", "T", " ", "\t", "5">>
OrderByClause == <<"O", "R", "D", "E", "R", " ", "B", "Y", " ", "?", "x">>
OrderByWordClause == <<"O", "R", "D", "E", "R", " ", "B", "Y", " ", "x">>
GroupByClause == <<"G", "R", "O", "U", "P", " ", "B", "Y", " ", "?", "x">>
GroupByWordClause == <<"G", "R", "O", "U", "P", " ", "B", "Y", " ", "x">>
QuotedClause == <<"\"", "a", "\"">>
DoubleQuoteClause == <<"\"", "a">>
SingleQuoteClause == <<"'", "a">>
CommentDoubleQuoteClause == <<"#", " ", "\"">>
CommentSingleQuoteClause == <<"#", " ", "d", "o", "n", "'", "t">>
LangTagClause == <<"\"", "a", "\"", "@", "e", "n", " ", "\"", "b">>
TripleClause == <<"?", "s", " ", "?", "p", " ", "?", "o", ".">>

\* the clauses that fail one check each
FailingClauses ==
    {ClosingClause, SelectDotClause, WhereWordClause, PrefixNoUriClause,
     PrefixOpenUriClause, EmptyFilterClause, LimitWordClause, OrderByWordClause,
     GroupByWordClause, DoubleQuoteClause, SingleQuoteClause, CommentDoubleQuoteClause}

ClausePool ==
    FailingClauses \cup
    {SelectTightClause, SelectVarClause, SelectStarClause, SelectCallClause,
     WhereTightClause, PrefixTightClause, FilterClause, LimitClause, LimitSpacesClause,
     LimitBreakClause, OffsetClause, OffsetSpacesClause, OrderByClause, GroupByClause,
     QuotedClause, CommentSingleQuoteClause, LangTagClause, TripleClause}

\* the texts: a clause of the pool, then failing clauses, one on each line
ClauseTexts ==
    {<<>>} \cup {join(<<first>> \o cs) : first \in ClausePool,
                                         cs \in SeqsUpTo(FailingClauses, MaxClauses - 1)}

ClauseInit ==
    /\ NoCalls
    /\ text \in ClauseTexts
    /\ applied = NotApplied

ClauseSpec == ClauseInit /\ [][ValidatorNext]_vars

-----------------------------------------------------------------------------
(* Several execute_sparql calls in progress at once, as when the server    *)
(* handles tool calls of several clients: each call has its own frame of   *)
(* locals (lines 176-181), and the steps of the calls interleave.          *)

\* how many calls are in progress at once
MaxInvocations == 2

Invocations == 1..MaxInvocations

\* a call that has not been made: its locals are not assigned yet
NotCalled ==
    [pc |-> "idle", sparql_query |-> None, attempt |-> 0, backoff_time |-> 0,
     exec_result |-> Returns(None), trace |-> <<>>]

\* what the endpoint raises and returns in these runs: an exception for each
\* except clause, and one result
FrameExceptions == [cls : {"ConnectionError", "QueryBadFormed", "ValueError"},
                    msg : {<<"m", NumStr(1)>>}]
FramePayloads == {AskResult(TRUE)}

ConcurrentInit ==
    /\ Idle
    /\ text = <<>>
    /\ applied = NotApplied
    /\ frames = [i \in Invocations |-> NotCalled]
    /\ NoServer

\* lines 176-181 in call i
enter(i) ==
    /\ frames[i].pc = "idle"
    /\ frames' = [frames EXCEPT ![i] =
                     [pc |-> "attempting", sparql_query |-> Str(AskQuery), attempt |-> 0,
                      backoff_time |-> INITIAL_BACKOFF, exec_result |-> Returns(None),
                      trace |-> <<>>]]

\* call i is made, by a server that runs the calls side by side
FrameEnter(i) ==
    /\ enter(i)
    /\ UNCHANGED <<pc, tool, sparql_query, attempt, backoff_time, exec_result, locals,
                   result, raised, trace, text, applied, running,
                   active_sessions, connections, uuids>>

\* lines 182-256 in call i: the endpoint call returns
attempt_succeeds(i) ==
    /\ frames[i].pc = "attempting"
    /\ \E results \in FramePayloads :
          frames' = [frames EXCEPT
                        ![i].exec_result = Returns(success_value(results)),
                        ![i].trace = Append(@, Event("endpoint", frames[i].attempt,
                                                     "ok", results)),
                        ![i].pc = "exec_returned"]

\* the same, by a server that runs the calls side by side
FrameAttemptSucceeds(i) ==
    /\ attempt_succeeds(i)
    /\ UNCHANGED <<pc, tool, sparql_query, attempt, backoff_time, exec_result, locals,
                   result, raised, trace, text, applied, running,
                   active_sessions, connections, uuids>>

\* lines 182-254 and the except clause in call i: the endpoint call raises
attempt_raises(i) ==
    /\ frames[i].pc = "attempting"
    /\ \E e \in FrameExceptions :
          LET f == frames[i]
              failed == [f EXCEPT !.trace = Append(@, Event("endpoint", f.attempt,
                                                            e.cls, Str(e.msg)))]
              returned == [failed EXCEPT
                              !.exec_result = Returns(JsonDumps(
                                  error_details(e, f.attempt, f.sparql_query))),
                              !.pc = "exec_returned"]
          IN frames' = [frames EXCEPT ![i] =
                           IF Handler(e.cls) = "badformed" THEN returned
                           ELSE IF f.attempt < MAX_RETRIES - 1
                           THEN [failed EXCEPT !.pc = "sleeping"]
                           ELSE returned]

\* the same, by a server that runs the calls side by side
FrameAttemptRaises(i) ==
    /\ attempt_raises(i)
    /\ UNCHANGED <<pc, tool, sparql_query, attempt, backoff_time, exec_result, locals,
                   result, raised, trace, text, applied, running,
                   active_sessions, connections, uuids>>

\* mutant: backoff_time kept in one place for all calls
FrameSleep_shared_backoff(i) ==
    /\ frames[i].pc = "sleeping"
    /\ frames' = [j \in Invocations |->
                     IF j = i
                     THEN [frames[j] EXCEPT
                              !.trace = Append(@, Event("sleep", frames[j].backoff_time,
                                                        "slept", None)),
                              !.backoff_time = @ * 2,
                              !.attempt = @ + 1,
                              !.pc = "attempting"]
                     ELSE [frames[j] EXCEPT !.backoff_time = @ * 2]]
    /\ UNCHANGED <<pc, tool, sparql_query, attempt, backoff_time, exec_result, locals,
                   result, raised, trace, text, applied, running,
                   active_sessions, connections, uuids>>

\* lines 266-268 and 290-292 in call i, and the next value of attempt
sleep(i) ==
    /\ frames[i].pc = "sleeping"
    /\ frames' = [frames EXCEPT
                     ![i].trace = Append(@, Event("sleep", frames[i].backoff_time,
                                                  "slept", None)),
                     ![i].backoff_time = @ * 2,
                     ![i].attempt = @ + 1,
                     ![i].pc = "attempting"]

\* the same, by a server that runs the calls side by side
FrameSleep(i) ==
    /\ sleep(i)
    /\ UNCHANGED <<pc, tool, sparql_query, attempt, backoff_time, exec_result, locals,
                   result, raised, trace, text, applied, running,
                   active_sessions, connections, uuids>>

ConcurrentNext ==
    \/ \E i \in Invocations : FrameEnter(i)
    \/ \E i \in Invocations : FrameAttemptSucceeds(i)
    \/ \E i \in Invocations : FrameAttemptRaises(i)
    \/ \E i \in Invocations : FrameSleep(i)

ConcurrentSpec == ConcurrentInit /\ [][ConcurrentNext]_vars

-----------------------------------------------------------------------------
(* The same calls as the server of server_sse.py runs them: uvicorn.run     *)
(* with workers=1 (lines 1148-1162) is one process with one event-loop      *)
(* thread; the tools are plain functions (def, lines 158-179), which run    *)
(* on that thread from their call to their return, and the wait of the      *)
(* retry is time.sleep (wikidata_api.py, lines 267 and 291), which keeps    *)
(* the thread.  running is the call the thread is in.                       *)

WorkerInit == ConcurrentInit

\* the event loop takes up the tools/call request of session i and calls the tool
WorkerRunsTool(i) ==
    /\ running = 0
    /\ enter(i)
    /\ running' = i
    /\ UNCHANGED <<pc, tool, sparql_query, attempt, backoff_time, exec_result, locals,
                   result, raised, trace, text, applied,
                   active_sessions, connections, uuids>>

\* the endpoint call returns and the tool returns to the event loop
WorkerAttemptSucceeds(i) ==
    /\ running = i
    /\ attempt_succeeds(i)
    /\ running' = 0
    /\ UNCHANGED <<pc, tool, sparql_query, attempt, backoff_time, exec_result, locals,
                   result, raised, trace, text, applied,
                   active_sessions, connections, uuids>>

\* the endpoint call raises: the tool returns to the event loop, or goes on to
\* time.sleep
WorkerAttemptRaises(i) ==
    /\ running = i
    /\ attempt_raises(i)
    /\ running' = IF frames'[i].pc = "exec_returned" THEN 0 ELSE i
    /\ UNCHANGED <<pc, tool, sparql_query, attempt, backoff_time, exec_result, locals,
                   result, raised, trace, text, applied,
                   active_sessions, connections, uuids>>

\* time.sleep(backoff_time) returns, in the thread that called it
WorkerSleep(i) ==
    /\ running = i
    /\ sleep(i)
    /\ UNCHANGED <<pc, tool, sparql_query, attempt, backoff_time, exec_result, locals,
                   result, raised, trace, text, applied, running,
                   active_sessions, connections, uuids>>

WorkerNext ==
    \/ \E i \in Invocations : WorkerRunsTool(i)
    \/ \E i \in Invocations : WorkerAttemptSucceeds(i)
    \/ \E i \in Invocations : WorkerAttemptRaises(i)
    \/ \E i \in Invocations : WorkerSleep(i)

WorkerSpec == WorkerInit /\ [][WorkerNext]_vars

-----------------------------------------------------------------------------
(* server_sse.py, lines 954-1099: the dict active_sessions under /sse       *)
(* connections and POST /messages requests.  Each handler runs without      *)
(* an await from its first line to the end of its use of active_sessions,   *)
(* so each is one step; an /sse request stays open from the step that       *)
(* enters connect_sse to the step that runs its finally clause.             *)
(*                                                                         *)
(* active_sessions is the sequence of the dict's entries in the order of    *)
(* their last_activity, the latest last; an entry keeps its key as          *)
(* session_id.  A message_count of 0 is an entry without that key (the      *)
(* code reads it with .get("message_count", 0)).                            *)

\* how many /sse requests are made
MaxConnections == 2

\* how many session ids uuid4() hands out
MaxUuids == 3

\* how many messages are counted on one session
MaxMessages == 2

Connections == 1..MaxConnections

\* the session_id query parameter: 0 when the request has none, or any id
SessionIdParams == 0..MaxUuids

\* an /sse request that has not been made
NotRequested == [pc |-> "not_requested", session_id |-> 0]

\* str(uuid4()): an id no earlier call returned
uuid4 == uuids + 1

\* the keys of the dict
Keys(sessions) == {sessions[k].session_id : k \in DOMAIN sessions}

\* active_sessions[session_id]
Entry(sessions, session_id) ==
    sessions[CHOOSE k \in DOMAIN sessions : sessions[k].session_id = session_id]

\* del active_sessions[session_id]
Delete(sessions, session_id) == SelectSeq(sessions, LAMBDA e : e.session_id # session_id)

\* active_sessions[session_id]["last_activity"] = datetime.now().isoformat(), and
\* message_count raised by count
Touch(sessions, session_id, count) ==
    Append(Delete(sessions, session_id),
           [Entry(sessions, session_id) EXCEPT !.message_count = @ + count])

\* sorted(active_sessions.items(), key=last_activity, reverse=True)[0][0]
MostRecent(sessions) == sessions[Len(sessions)].session_id

\* GET /health, lines 962-964
health == [status |-> "healthy", connections |-> Len(active_sessions)]

SessionInit ==
    /\ Idle
    /\ text = <<>>
    /\ applied = NotApplied
    /\ frames = <<>>
    /\ running = 0
    /\ active_sessions = <<>>
    /\ connections = [c \in Connections |-> NotRequested]
    /\ uuids = 0

\* sse_endpoint, lines 968-1005: the request, up to the entry into connect_sse
SseConnect(c, existing_session_id) ==
    /\ connections[c].pc = "not_requested"
    /\ IF existing_session_id # 0 /\ existing_session_id \in Keys(active_sessions)
       THEN /\ active_sessions' = Touch(active_sessions, existing_session_id, 0)
            /\ connections' = [connections EXCEPT ![c] =
                                  [pc |-> "open", session_id |-> existing_session_id]]
            /\ UNCHANGED uuids
       ELSE /\ uuids < MaxUuids
            /\ active_sessions' = Append(active_sessions,
                                         [session_id |-> uuid4, connection_count |-> 1,
                                          message_count |-> 0])
            /\ connections' = [connections EXCEPT ![c] =
                                  [pc |-> "open", session_id |-> uuid4]]
            /\ uuids' = uuids + 1
    /\ UNCHANGED <<pc, tool, sparql_query, attempt, backoff_time, exec_result, locals,
                   result, raised, trace, text, applied, frames, running>>

\* sse_endpoint, lines 1006-1041: the connection ends, by the server's run
\* returning or by an exception, and the finally clause runs
SseClose(c) ==
    /\ connections[c].pc = "open"
    /\ active_sessions' = Delete(active_sessions, connections[c].session_id)
    /\ connections' = [connections EXCEPT ![c].pc = "closed"]
    /\ UNCHANGED <<pc, tool, sparql_query, attempt, backoff_time, exec_result, locals,
                   result, raised, trace, text, applied, frames, running, uuids>>

\* post_messages_no_slash, lines 1059-1099
PostMessage(session_id) ==
    /\ IF session_id = 0 \/ session_id \notin Keys(active_sessions)
       THEN IF active_sessions # <<>>
            THEN /\ Entry(active_sessions, MostRecent(active_sessions)).message_count
                        < MaxMessages
                 /\ active_sessions' =
                        Touch(active_sessions, MostRecent(active_sessions), 1)
                 /\ UNCHANGED uuids
            ELSE /\ uuids < MaxUuids
                 /\ active_sessions' = <<[session_id |-> uuid4, connection_count |-> 0,
                                          message_count |-> 1]>>
                 /\ uuids' = uuids + 1
       ELSE /\ Entry(active_sessions, session_id).message_count < MaxMessages
            /\ active_sessions' = Touch(active_sessions, session_id, 1)
            /\ UNCHANGED uuids
    /\ UNCHANGED <<pc, tool, sparql_query, attempt, backoff_time, exec_result, locals,
                   result, raised, trace, text, applied, frames, running, connections>>

SessionNext ==
    \/ \E c \in Connections, existing_session_id \in SessionIdParams :
          SseConnect(c, existing_session_id)
    \/ \E c \in Connections : SseClose(c)
    \/ \E session_id \in SessionIdParams : PostMessage(session_id)

SessionSpec == SessionInit /\ [][SessionNext]_vars

-----------------------------------------------------------------------------
(* Properties.                                                             *)

\* positions in trace of the endpoint calls and of the sleeps
EndpointEvents == {i \in DOMAIN trace : trace[i].op = "endpoint"}
SleepEvents == {i \in DOMAIN trace : trace[i].op = "sleep"}

\* how an endpoint call ends when it raises something other than QueryBadFormed
RetryableOut == {"Timeout", "ConnectionError", "ValueError"}

\* v is the JSON text of a failure object of execute_sparql
ExecFailure(v) ==
    /\ v.t = "jstr"
    /\ HasKey(v.val, "error") /\ HasKey(v.val, "query") /\ HasKey(v.val, "error_type")

\* execute_sparql has ended in this invocation
ExecEnded == pc \in {"exec_returned", "done", "raised"}

\* the tools registered with @mcp.tool()
FacadeTools == {"search_wikidata_entity", "search_wikidata_property",
                "get_wikidata_metadata", "get_wikidata_properties",
                "execute_wikidata_sparql", "find_entity_facts", "get_related_entities"}

\* C1: an endpoint call that raises QueryBadFormed is the last thing
\* execute_sparql does: no endpoint call and no sleep follows it, and
\* execute_sparql has returned a failure whose error_type is QueryBadFormed;
\* raised on the first attempt, it leaves exactly one attempt and no sleep.
C1_BadFormedIsTerminal ==
    \A i \in EndpointEvents :
        trace[i].out = "QueryBadFormed" =>
            /\ i = Len(trace)
            /\ ExecEnded
            /\ exec_result.ok
            /\ ExecFailure(exec_result.val)
            /\ exec_result.val.val.d.error_type = Str(<<"QueryBadFormed">>)
            /\ (trace[i].n = 0 => Cardinality(EndpointEvents) = 1 /\ SleepEvents = {})

\* C1 witness: QueryBadFormed raised on the second attempt, after a
\* transient failure and its sleep, and execute_sparql has returned
C1_Witness ==
    /\ pc = "exec_returned"
    /\ \E i \in EndpointEvents : trace[i].out = "QueryBadFormed" /\ trace[i].n = 1

\* C2: no invocation of execute_sparql makes more than 3 endpoint calls.
C2_AtMostThreeCalls == Cardinality(EndpointEvents) <= 3

\* C2 witness: an invocation that made three endpoint calls
C2_Witness == Cardinality(EndpointEvents) = 3 /\ tool = "execute_sparql"

\* C3: after a failed attempt that is not QueryBadFormed and not the third,
\* execute_sparql is sleeping before the next attempt, about to make it, or has
\* made it: it never ends there.  So when every endpoint call failed that way
\* and execute_sparql has returned, it made exactly 3 calls and returned a failure.
C3_RetryableFailuresAreRetried ==
    /\ \A i \in EndpointEvents :
          (trace[i].out \in RetryableOut /\ trace[i].n < 2) =>
              \/ pc = "sleeping" /\ i = Len(trace)
              \/ /\ pc = "attempting"
                 /\ i = Len(trace) - 1
                 /\ trace[Len(trace)].op = "sleep"
                 /\ attempt = trace[i].n + 1
              \/ \E j \in EndpointEvents : j > i /\ trace[j].n = trace[i].n + 1
    /\ (/\ pc = "exec_returned"
        /\ \A i \in EndpointEvents : trace[i].out \in RetryableOut)
       => /\ Cardinality(EndpointEvents) = 3
          /\ exec_result.ok
          /\ ExecFailure(exec_result.val)

\* C3 witness: three failed attempts, among them a Timeout and an exception
\* of no named class, and then the return
C3_Witness ==
    /\ pc = "exec_returned"
    /\ Cardinality(EndpointEvents) = 3
    /\ \A i \in EndpointEvents : trace[i].out \in RetryableOut
    /\ \E i, j \in EndpointEvents : trace[i].out = "Timeout" /\ trace[j].out = "ValueError"

\* C4 (as claimed): when all 3 attempts failed with retryable errors, the
\* failure execute_sparql returns has error_type MaxRetriesExceeded.
C4_ExhaustedIsMaxRetriesExceeded ==
    (/\ pc = "exec_returned"
     /\ Cardinality(EndpointEvents) = 3
     /\ \A i \in EndpointEvents : trace[i].out \in RetryableOut)
    => /\ exec_result.ok
       /\ ExecFailure(exec_result.val)
       /\ exec_result.val.val.d.error_type = Str(<<"MaxRetriesExceeded">>)

\* C5: execute_sparql lets no exception out: whenever it has ended it has
\* returned the JSON text of the endpoint's results or of a failure object
\* with error, query and error_type; and once entered it does end.
C5_NoExceptionEscapes ==
    /\ [](pc = "exec_returned" =>
            /\ exec_result.ok
            /\ \/ exec_result.val \in {JsonDumps(p) : p \in Payloads}
               \/ ExecFailure(exec_result.val))
    /\ (pc \in {"attempting", "sleeping"}) ~> (pc = "exec_returned")

\* C5 witness: the third attempt raised an exception of no named class and
\* execute_sparql has returned
C5_Witness ==
    /\ pc = "exec_returned"
    /\ trace[Len(trace)].op = "endpoint"
    /\ trace[Len(trace)].out = "ValueError"
    /\ trace[Len(trace)].n = 2

\* C6: when an attempt succeeds, execute_sparql returns exactly the JSON text
\* of the results of that attempt (parsing it gives them back), whatever
\* attempts failed before; called directly, that text is what the caller gets.
C6_SuccessReturnedAsIs ==
    (/\ pc \in {"exec_returned", "done"}
     /\ EndpointEvents # {}
     /\ trace[Len(trace)].out = "ok")
    => /\ exec_result = Returns(JsonDumps(trace[Len(trace)].val))
       /\ JsonLoads(exec_result.val) = Returns(trace[Len(trace)].val)
       /\ (pc = "done" /\ tool = "execute_sparql" => result = exec_result.val)

\* C6 witness: two connection errors, then a success, returned to the caller
C6_Witness ==
    /\ pc = "done"
    /\ tool = "execute_sparql"
    /\ Len(trace) = 5
    /\ trace[1].out = "ConnectionError"
    /\ trace[3].out = "ConnectionError"
    /\ trace[5].out = "ok"

\* C7: through execute_wikidata_sparql a rejected query never reaches the
\* network: after an invalid verdict execute_sparql is not entered and the
\* tool has returned (the validation error object, when called directly);
\* and execute_sparql runs only after a valid verdict on the caller's text,
\* which is the text it is given.
C7_InvalidNeverDispatched ==
    tool \in {"execute_wikidata_sparql", "find_entity_facts", "get_related_entities"} =>
        /\ (\E i \in DOMAIN trace : trace[i].op = "validate" /\ trace[i].out = "invalid")
           => /\ EndpointEvents = {}
              /\ pc = "done"
              /\ sparql_query = None
              /\ (tool = "execute_wikidata_sparql" =>
                     /\ result.t = "jstr"
                     /\ HasKey(result.val, "error")
                     /\ result.val.d.error = Str(<<"SPARQL query validation failed">>))
        /\ (EndpointEvents # {} \/ pc \in {"attempting", "sleeping"})
           => /\ \E i \in DOMAIN trace :
                    /\ trace[i].op = "validate"
                    /\ trace[i].out = "valid"
                    /\ trace[i].val = locals.query
                    /\ \A j \in EndpointEvents : i < j
              /\ sparql_query = locals.query
              /\ ~(locals.query.parts \in {UnbalancedQuery, SelectQuery})

\* C7 witness: execute_wikidata_sparql has returned for a query with an
\* unclosed brace
C7_Witness ==
    /\ tool = "execute_wikidata_sparql"
    /\ pc = "done"
    /\ locals.query = Str(UnbalancedQuery)
    /\ trace = <<Event("validate", 0, "invalid", Str(UnbalancedQuery))>>

\* C8 (as claimed): every tool returns, on every path, a string that is
\* valid JSON.
C8_ToolsReturnJson ==
    (tool \in FacadeTools /\ pc \in {"done", "raised"})
    => pc = "done" /\ result.t = "jstr"

\* C9 (as claimed): no tool lets an exception out.
C9_ToolsNeverRaise == tool \in FacadeTools => pc # "raised"

\* some call of this invocation failed, or its query was rejected
FailurePath ==
    \/ \E i \in DOMAIN trace : trace[i].out \in {"none", "error", "invalid"}
    \/ EndpointEvents # {} /\ exec_result.ok /\ ExecFailure(exec_result.val)

\* C10 (as claimed): on every failure path the tool returns a JSON object
\* with an error field and a suggestion field.
C10_FailuresHaveErrorAndSuggestion ==
    (tool \in FacadeTools /\ pc = "done" /\ FailurePath)
    => /\ result.t = "jstr"
       /\ HasKey(result.val, "error")
       /\ HasKey(result.val, "suggestion")

\* v is, or holds at any depth, the traceback of an executor failure
RECURSIVE HasTraceback(_)
HasTraceback(v) ==
    CASE v.t = "jstr" -> HasTraceback(v.val)
      [] v.t = "dict" -> \/ "traceback" \in DOMAIN v.d
                         \/ \E k \in DOMAIN v.d : HasTraceback(v.d[k])
      [] v.t = "str" -> \E i \in DOMAIN v.parts :
                           v.parts[i] = "Traceback (most recent call last): "
      [] OTHER -> FALSE

\* C11: no value returned by a tool holds the traceback that execute_sparql
\* put in its failure object, whatever failure the executor returned; an
\* exception a tool lets out carries none either.
C11_NoTracebackReturned ==
    tool \in FacadeTools =>
        /\ (pc = "done" => ~HasTraceback(result))
        /\ (pc = "raised" => ~HasTraceback(Str(raised.msg)))

\* C11 witness: execute_wikidata_sparql has returned after an executor
\* failure whose object holds a traceback
C11_Witness ==
    /\ tool = "execute_wikidata_sparql"
    /\ pc = "done"
    /\ exec_result.ok
    /\ ExecFailure(exec_result.val)
    /\ HasTraceback(exec_result.val)

\* C12: find_entity_facts calls entity search first, the metadata lookup
\* second, the property search third and only when property_name is given,
\* and validates and executes its query after them; a call that fails is
\* the last thing it does before it returns.
C12_FirstFailureStops ==
    tool = "find_entity_facts" =>
        \A i \in DOMAIN trace :
            /\ (i = 1 <=> trace[i].op = "search_entity")
            /\ (trace[i].op = "get_entity_metadata" => i = 2)
            /\ (trace[i].op = "search_property" =>
                   /\ i = 3
                   /\ trace[2].op = "get_entity_metadata"
                   /\ (locals # NoLocals => Truthy(locals.property_name)))
            /\ (trace[i].op \in {"search_entity", "get_entity_metadata", "search_property"}
                /\ trace[i].out # "ok")
               => (i = Len(trace) /\ pc = "done" /\ EndpointEvents = {})
            /\ (trace[i].op \in {"validate", "endpoint", "sleep"} =>
                   /\ trace[2].op = "get_entity_metadata"
                   /\ \A j \in 1..(i - 1) : trace[j].out \notin {"none", "error", "invalid"}
                   /\ (trace[3].op = "search_property" <=> Truthy(locals.property_name))
                   /\ (trace[3].op # "search_property" => trace[3].op = "validate"))

\* C12 witness: the property search found nothing and find_entity_facts has
\* returned after it, with no query validated or executed
C12_Witness ==
    /\ tool = "find_entity_facts"
    /\ pc = "done"
    /\ Len(trace) = 3
    /\ trace[3].op = "search_property"
    /\ trace[3].out = "none"

\* C13 (as claimed): with the entity found, its metadata fetched and no
\* property_name, find_entity_facts makes no property search and returns the
\* metadata as entity, null as property and, as facts, the outcome of
\* executing the generated query.
C13_FactsAreExecutorOutcome ==
    (/\ tool = "find_entity_facts"
     /\ pc = "done"
     /\ locals # NoLocals
     /\ locals.property_name = None)
    => /\ \A i \in DOMAIN trace : trace[i].op # "search_property"
       /\ result.t = "jstr"
       /\ result.val.d.entity = trace[2].val
       /\ result.val.d.property = None
       /\ EndpointEvents # {}
       /\ result.val.d.facts =
              JsonLoads(execute_wikidata_sparql_after(sparql_query, exec_result)).val

\* C18 (as claimed): two connection errors and then a success: the sleeps
\* between the first and the third attempt add up to at least 2^2 seconds.
C18_DelayBeforeThirdAttempt ==
    (/\ pc = "exec_returned"
     /\ Len(trace) = 5
     /\ trace[1].out = "ConnectionError"
     /\ trace[3].out = "ConnectionError"
     /\ trace[5].out = "ok")
    => trace[2].n + trace[4].n >= 2 ^ 2

\* C19: backoff_time is 1 when execute_sparql starts and doubles at each
\* sleep: the k-th sleep of an invocation lasts 2^(k-1) seconds whatever
\* exception came before it; every sleep follows a failed attempt and is
\* followed by the next attempt; the last thing an invocation does is an
\* attempt, never a sleep.
C19_BackoffDoubles ==
    /\ pc \in {"attempting", "sleeping", "exec_returned"} =>
          /\ backoff_time = 2 ^ Cardinality(SleepEvents)
          /\ (attempt = 0 => backoff_time = 1)
    /\ \A i \in SleepEvents :
          /\ trace[i].n = 2 ^ Cardinality({j \in SleepEvents : j < i})
          /\ i > 1
          /\ trace[i - 1].op = "endpoint"
          /\ trace[i - 1].out \in RetryableOut
          /\ IF i = Len(trace) THEN pc = "attempting" ELSE trace[i + 1].op = "endpoint"
    /\ (ExecEnded /\ EndpointEvents # {}) => trace[Len(trace)].op = "endpoint"

\* C19 witness: three failed attempts, the first with an exception of no
\* named class and the second with a Timeout, slept 1 and then 2 seconds,
\* and the invocation has returned
C19_Witness ==
    /\ pc = "exec_returned"
    /\ Len(trace) = 5
    /\ trace[1].out = "ValueError"
    /\ trace[2].op = "sleep" /\ trace[2].n = 1
    /\ trace[3].out = "Timeout"
    /\ trace[4].op = "sleep" /\ trace[4].n = 2
    /\ trace[5].out \in RetryableOut

\* the delimiters of a text, in order
Delimiters(t) == SelectSeq(t, LAMBDA c : c \in {"(", ")", "[", "]", "{", "}"})

\* d[i] opens and d[i + 1] closes the same kind of delimiter
MatchingPair(d, i) ==
    <<d[i], d[i + 1]>> \in {<<"(", ")">>, <<"[", "]">>, <<"{", "}">>}

\* what is left of d when adjacent matching pairs are removed until none is left
RECURSIVE Cancel(_)
Cancel(d) ==
    LET pairs == {i \in 1..(Len(d) - 1) : MatchingPair(d, i)} IN
    IF pairs = {} THEN d
    ELSE LET i == CHOOSE p \in pairs : \A r \in pairs : p <= r
         IN Cancel(SubSeq(d, 1, i - 1) \o SubSeq(d, i + 2, Len(d)))

\* the first closer left without its opener, otherwise the last opener left
Offending(t) ==
    LET left == Cancel(Delimiters(t))
        closers == {i \in DOMAIN left : left[i] \in {")", "]", "}"}}
    IN IF closers # {}
       THEN left[CHOOSE i \in closers : \A j \in closers : i <= j]
       ELSE left[Len(left)]

\* how the two messages of the delimiter check begin
DelimiterErrors ==
    {"Unbalanced closing bracket/parenthesis/brace: '",
     "Unclosed opening bracket/parenthesis/brace: '"}

\* C14: a text whose delimiters do not cancel out is invalid, with one of the
\* two messages of the delimiter check, and the message quotes the first
\* closer left without its opener or, if there is none, the last opener left
\* open; a text whose delimiters cancel out gets neither message.
C14_UnbalancedNamesOffender ==
    applied.op = "validate" =>
        IF Cancel(Delimiters(text)) = <<>>
        THEN \/ applied.verdict.is_valid
             \/ applied.verdict.error.parts[1] \notin DelimiterErrors
        ELSE /\ ~applied.verdict.is_valid
             /\ Len(applied.verdict.error.parts) = 3
             /\ applied.verdict.error.parts[1] \in DelimiterErrors
             /\ applied.verdict.error.parts[2] = Offending(text)
             /\ applied.verdict.error.parts[3] = "'"

\* C14 witness: the validator has judged "([)]", whose closers are as many
\* as its openers but cross
C14_Witness ==
    /\ applied.op = "validate"
    /\ text = <<"(", "[", ")", "]">>
    /\ ~applied.verdict.is_valid

\* how often the text w occurs in the text s
Occurrences(w, s) ==
    Cardinality({i \in 1..(Len(s) - Len(w) + 1) : SubSeq(s, i, i + Len(w) - 1) = w})

\* the names the standard block declares
StandardPrefixNames == {<<"w", "d">>, <<"w", "d", "t">>, <<"p">>, <<"p", "s">>,
                        <<"w", "i", "k", "i", "b", "a", "s", "e">>, <<"b", "d">>}

\* C15: when the sanitized text has a line that is not a PREFIX line and has
\* no PREFIX line (a line whose first word begins with PREFIX in any case),
\* the text dispatched is the standard block, a newline and the sanitized
\* text, and holds the block and each of its six declarations once; in
\* every other case the text dispatched is the sanitized text itself.
C15_PrefixBlockOnce ==
    applied.op = "sanitize" =>
        LET sanitized == applied.passes[1]
            lines == splitlines(sanitized)
            block == strip(prefixes)
        IN IF /\ \E i \in DOMAIN lines : ~IsPrefixLine(lines[i])
              /\ ~\E i \in DOMAIN lines : IsPrefixLine(lines[i])
           THEN /\ applied.full_query = block \o <<"\n">> \o sanitized
                /\ Occurrences(block, applied.full_query) = 1
                /\ \A name \in StandardPrefixNames :
                      Occurrences(<<"P", "R", "E", "F", "I", "X", " ">> \o name \o <<":">>,
                                  applied.full_query) = 1
           ELSE applied.full_query = sanitized

\* C15 witness: an ASK query without PREFIX lines has been given the block
C15_Witness ==
    /\ applied.op = "sanitize"
    /\ text = join(<<AskLine, CloseLine>>)
    /\ applied.full_query # applied.passes[1]
    /\ startswith(applied.full_query, <<"P", "R", "E", "F", "I", "X", " ", "w", "d", ":">>)

\* a line the filter is to drop: blank, a full-line comment, or one of the
\* lines of prose (English sentences, no SPARQL term in them)
ToBeDropped(line) ==
    \/ strip(line) = <<>>
    \/ strip(line)[1] = "#"
    \/ line \in ProseLines

\* C16 (as claimed): the line filter keeps every line that ends in "." and
\* holds ":" or "?" (and is not a comment), and keeps no blank line, no
\* full-line comment and no line of prose.
C16_ProseDropped ==
    applied.op = "sanitize" =>
        LET given == splitlines(text)
            kept == splitlines(applied.passes[1])
        IN /\ \A i \in DOMAIN given :
                 (/\ ~ToBeDropped(given[i])
                  /\ strip(given[i])[Len(strip(given[i]))] = "."
                  /\ HasChar(given[i], ":") \/ HasChar(given[i], "?"))
                 => \E j \in DOMAIN kept : kept[j] = given[i]
           /\ \A j \in DOMAIN kept : ~ToBeDropped(kept[j])

\* C17: applying the line filter to its own output changes nothing.
C17_FilterIdempotent ==
    applied.op = "sanitize" =>
        \A k \in DOMAIN applied.passes : applied.passes[k] = applied.passes[1]

\* C17 witness: a clean text of a FILTER line and a LIMIT/OFFSET line has
\* gone through the filter twice and came out as it went in
C17_Witness ==
    /\ applied.op = "sanitize"
    /\ Len(applied.passes) = 2
    /\ text = join(<<FilterLine, LimitOffsetLine>>)
    /\ applied.passes[1] = text

\* the sleeps call i has made
FrameSleeps(i) == {k \in DOMAIN frames[i].trace : frames[i].trace[k].op = "sleep"}

\* what a call returns when its last endpoint call ended as event ev says
OutcomeOf(ev, q) ==
    IF ev.out = "ok" THEN Returns(success_value(ev.val))
    ELSE Returns(JsonDumps(error_details([cls |-> ev.out, msg |-> ev.val.parts], ev.n, q)))

\* C20: with several execute_sparql calls in progress, each call's attempt
\* and backoff_time are those of its own history alone: attempt 0 and
\* backoff 1 at its start, attempt the number of its own sleeps and backoff
\* 2 to that number afterwards; its k-th endpoint call is attempt k-1 and its
\* k-th sleep lasts 2^(k-1) seconds; and what it returns is the outcome of
\* its own last endpoint call, whatever the other calls have done.
C20_RetryStatePrivate ==
    \A i \in DOMAIN frames :
        LET f == frames[i] IN
        f.pc # "idle" =>
            /\ f.attempt = Cardinality(FrameSleeps(i))
            /\ f.backoff_time = 2 ^ Cardinality(FrameSleeps(i))
            /\ (f.trace = <<>> => f.attempt = 0 /\ f.backoff_time = 1)
            /\ \A k \in DOMAIN f.trace :
                  LET before == Cardinality({j \in FrameSleeps(i) : j < k}) IN
                  IF f.trace[k].op = "sleep"
                  THEN f.trace[k].n = 2 ^ before
                  ELSE f.trace[k].n = before
            /\ (f.pc = "exec_returned" =>
                   f.exec_result = OutcomeOf(f.trace[Len(f.trace)], f.sparql_query))

\* C20 witness: a call enters and makes its first attempt while another has
\* failed twice and slept twice
C20_Witness ==
    /\ frames # <<>>
    /\ frames[1].pc = "attempting"
    /\ frames[1].attempt = 2
    /\ frames[1].backoff_time = 4
    /\ frames[2].pc = "sleeping"
    /\ frames[2].attempt = 0
    /\ frames[2].backoff_time = 1

\* the check a verdict comes from, read off its error message
VerdictCheck(v) ==
    IF v.is_valid THEN "valid"
    ELSE LET said == v.error.parts[1] IN
         CASE said \in DelimiterErrors -> "delimiters"
           [] said = "Invalid SELECT clause." -> "SELECT"
           [] said = "Invalid WHERE clause." -> "WHERE"
           [] said = "Invalid PREFIX declaration." -> "PREFIX <"
           [] said = "Incomplete URI in PREFIX declaration." -> "PREFIX >"
           [] said = "Empty FILTER clause." -> "FILTER"
           [] said = "Invalid LIMIT or OFFSET clause." -> "LIMIT/OFFSET"
           [] said = "Invalid ORDER BY clause." -> "ORDER BY"
           [] said = "Invalid GROUP BY clause." -> "GROUP BY"
           [] said = "Unbalanced double quotes." -> "double quotes"
           [] said = "Unbalanced single quotes." -> "single quotes"
           [] OTHER -> "other"

\* the text t fails the named check, taken on its own
Fails(check, t) ==
    CASE check = "delimiters" -> Cancel(Delimiters(t)) # <<>>
      [] check = "SELECT" -> SelectRegex(t)
      [] check = "WHERE" -> WhereRegex(t) /\ ~WhereDataRegex(t)
      [] check = "PREFIX <" -> PrefixNoUriRegex(t)
      [] check = "PREFIX >" -> PrefixOpenUriRegex(t)
      [] check = "FILTER" -> EmptyFilterRegex(t)
      [] check = "LIMIT/OFFSET" -> LimitOffsetRegex(t)
      [] check = "ORDER BY" -> OrderByRegex(t)
      [] check = "GROUP BY" -> GroupByRegex(t)
      [] check = "double quotes" ->
            /\ Count(t, "\"") % 2 # 0 /\ CleanCount(t, "\"") % 2 # 0
            /\ ~LangTagQuoteRegex(t) /\ ~DatatypeQuoteRegex(t)
      [] check = "single quotes" -> Count(t, "'") % 2 # 0 /\ CleanCount(t, "'") % 2 # 0

\* the order of the checks as the claim lists it, and with the check of an
\* empty FILTER where the function makes it
ClaimedOrder ==
    <<"delimiters", "SELECT", "WHERE", "PREFIX <", "PREFIX >", "LIMIT/OFFSET", "ORDER BY",
      "GROUP BY", "double quotes", "single quotes">>
OrderWithFilter ==
    <<"delimiters", "SELECT", "WHERE", "PREFIX <", "PREFIX >", "FILTER", "LIMIT/OFFSET",
      "ORDER BY", "GROUP BY", "double quotes", "single quotes">>

\* the checks of order that t fails
FailedOf(order, t) == {k \in DOMAIN order : Fails(order[k], t)}

\* the earliest check of order that t fails
Earliest(order, t) ==
    order[CHOOSE k \in FailedOf(order, t) : \A j \in FailedOf(order, t) : k <= j]

\* C21 (as claimed): a text that fails some of the checks delimiter balance,
\* SELECT, WHERE, PREFIX (missing "<", then missing ">"), LIMIT/OFFSET,
\* ORDER BY, GROUP BY, quote balance gets the verdict of the earliest of
\* them it fails.
C21_EarliestClaimedCheckWins ==
    applied.op = "validate" /\ FailedOf(ClaimedOrder, text) # {} =>
        VerdictCheck(applied.verdict) = Earliest(ClaimedOrder, text)

\* C21 (amended): the order has the check of an empty FILTER between the
\* PREFIX checks and the LIMIT/OFFSET check; a text that fails some of the
\* checks gets the verdict of the earliest one it fails in that order, and a
\* text that fails none is valid.
C21_EarliestCheckWins ==
    applied.op = "validate" =>
        IF FailedOf(OrderWithFilter, text) = {}
        THEN applied.verdict.is_valid
        ELSE VerdictCheck(applied.verdict) = Earliest(OrderWithFilter, text)

\* C21 witness: a text with a LIMIT that has no number and then a SELECT that
\* has no variable has been judged by its SELECT
C21_Witness ==
    /\ applied.op = "validate"
    /\ text = join(<<LimitWordClause, SelectDotClause>>)
    /\ VerdictCheck(applied.verdict) = "SELECT"

\* the position right after all the whitespace that starts at position a of t
AfterSpaces(t, a) ==
    CHOOSE j \in a..(Len(t) + 1) :
        /\ \A k \in a..(j - 1) : IsSpace(t[k])
        /\ j <= Len(t) => ~IsSpace(t[j])

\* the SELECT at position i of t is followed, after optional whitespace, by
\* "?", "*", "(" or the name of a function
SelectFollowed(t, i) ==
    LET j == AfterSpaces(t, i + 6) IN
    j <= Len(t) /\ (t[j] \in {"?", "*", "("} \/ IsWordChar(t[j]))

\* C22 (as claimed): a text with balanced delimiters gets the verdict of the
\* SELECT check exactly when one of its SELECT keywords is not followed,
\* after optional whitespace, by "?", "*", "(" or a function name; so a text
\* in which every SELECT is followed by whitespace and a variable, "*" or
\* "(" does not get it.
C22_SelectCheckExact ==
    applied.op = "validate" /\ Cancel(Delimiters(text)) = <<>> =>
        (VerdictCheck(applied.verdict) = "SELECT"
            <=> \E i \in 1..Len(text) :
                   /\ WordAt(text, i, <<"S", "E", "L", "E", "C", "T">>)
                   /\ ~SelectFollowed(text, i))

\* the LIMIT or OFFSET w at position i of t is followed by whitespace and
\* then something else than a digit
NoNumberAfter(t, i, w) ==
    LET a == i + Len(w)
        j == AfterSpaces(t, a)
    IN j > a /\ ~(j <= Len(t) /\ IsDigit(t[j]))

\* C23 (as claimed): a text that passes the checks made before it gets the
\* verdict of the LIMIT/OFFSET check exactly when a LIMIT or OFFSET of it is
\* followed by whitespace and no digit; a LIMIT or OFFSET followed by one
\* space, several spaces or a line break and then digits does not get it.
C23_LimitCheckExact ==
    /\ applied.op = "validate"
    /\ VerdictCheck(applied.verdict) \in
           {"valid", "LIMIT/OFFSET", "ORDER BY", "GROUP BY", "double quotes", "single quotes"}
    => (VerdictCheck(applied.verdict) = "LIMIT/OFFSET"
           <=> \E i \in 1..Len(text) :
                  \E w \in {<<"L", "I", "M", "I", "T">>, <<"O", "F", "F", "S", "E", "T">>} :
                      WordAt(text, i, w) /\ NoNumberAfter(text, i, w))

\* C24 (as claimed): a text that passes the checks made before the quote
\* checks and has no language tag and no datatype annotation gets an
\* "unbalanced quotes" verdict exactly when, "#"-comments removed, its double
\* quotes or its single quotes are odd in number.
C24_QuoteParity ==
    /\ applied.op = "validate"
    /\ VerdictCheck(applied.verdict) \in {"valid", "double quotes", "single quotes"}
    /\ ~HasChar(text, "@")
    /\ ~HasChar(text, "^")
    => (VerdictCheck(applied.verdict) \in {"double quotes", "single quotes"}
           <=> \/ CleanCount(text, "\"") % 2 = 1
               \/ CleanCount(text, "'") % 2 = 1)

\* the first whitespace-delimited token of a stripped line, in upper case
FirstToken(stripped_line) ==
    LET u == upper(stripped_line)
        blanks == {i \in DOMAIN u : IsSpace(u[i])}
    IN IF blanks = {} THEN u
       ELSE SubSeq(u, 1, (CHOOSE i \in blanks : \A j \in blanks : i <= j) - 1)

\* the rule of C25 for a line that is neither blank nor a comment
KeptByRule(line) ==
    LET s == strip(line) IN
    /\ s # <<>>
    /\ s[1] # "#"
    /\ \/ FirstToken(s) \in allowed_keywords
       \/ \E c \in {"{", "}", ";", ","} : HasChar(s, c)
       \/ (HasChar(s, ":") \/ HasChar(s, "?")) /\ s[Len(s)] = "."

\* C25 (as claimed): the line filter gives back, unchanged and in their
\* order, exactly the lines that are neither blank nor comments and (a)
\* whose first whitespace-delimited token is one of the 21 keywords in any
\* case, or (b) that hold one of "{", "}", ";", ",", or (c) that hold ":" or
\* "?" and end with a period.
C25_LineFilterRule ==
    applied.op = "sanitize" =>
        applied.passes[1] = join(SelectSeq(splitlines(text), KeptByRule))

\* C27: when find_entity_facts stops at a failed step, what it returns tells
\* the step and holds what was found before it: after a failed property
\* search, the metadata that was fetched, as entity_found, and the error of
\* the property search, as error_searching_property; after a failed metadata
\* call, that call's error with a context that names the entity and its ID;
\* after a failed entity search, the error of the entity search.
C27_FailureCarriesContext ==
    (tool = "find_entity_facts" /\ pc = "done" /\ trace # <<>>) =>
        LET last == trace[Len(trace)] IN
        /\ (last.op = "search_property" /\ last.out # "ok") =>
              /\ result.t = "jstr"
              /\ HasKey(result.val, "entity_found")
              /\ result.val.d.entity_found = trace[2].val
              /\ HasKey(result.val, "error_searching_property")
              /\ HasKey(result.val.d.error_searching_property, "error")
              /\ result.val.d.error_searching_property.d.error =
                    IF last.out = "error"
                    THEN Str(<<"Failed to search Wikidata property.">>)
                    ELSE Str(<<"No property found on Wikidata.">>)
              /\ (last.out = "error" =>
                     result.val.d.error_searching_property.d.details = last.val)
        /\ (last.op = "get_entity_metadata" /\ last.out = "error") =>
              /\ result.t = "jstr"
              /\ HasKey(result.val, "error")
              /\ result.val.d.details = last.val.d.error
              /\ HasKey(result.val, "context")
              /\ \E entity_name \in EntityNames :
                    result.val.d.context =
                        Str(<<"Error fetching metadata for entity '">> \o entity_name.parts
                            \o <<"' (ID: ">> \o trace[1].val.parts \o <<").">>)
        /\ (trace[1].op = "search_entity" /\ trace[1].out # "ok") =>
              /\ Len(trace) = 1
              /\ result.t = "jstr"
              /\ HasKey(result.val, "error")
              /\ result.val.d.error =
                    IF trace[1].out = "error"
                    THEN Str(<<"Failed to search Wikidata entity.">>)
                    ELSE Str(<<"No entity found on Wikidata.">>)

\* C27 witness: the property search failed on the network after the entity
\* and its metadata were found, and find_entity_facts has returned the
\* metadata with the error
C27_Witness ==
    /\ tool = "find_entity_facts"
    /\ pc = "done"
    /\ Len(trace) = 3
    /\ trace[3].op = "search_property"
    /\ trace[3].out = "error"
    /\ HasKey(result.val, "entity_found")
    /\ trace[2].out = "ok"

\* execute_sparql is running or has just ended
InExecuteSparql == pc \in {"attempting", "sleeping", "exec_returned"}

\* how the first line of the prefix block begins
PrefixBlockHead == <<"P", "R", "E", "F", "I", "X", " ", "w", "d", ":", " ", "<">>

\* what the endpoint calls made so far were given, and what a failure that
\* execute_sparql returned says the query was
DispatchedAsGiven ==
    /\ EndpointEvents # {} =>
          LET first == trace[CHOOSE i \in EndpointEvents : \A j \in EndpointEvents : i <= j].sent
          IN /\ Occurrences(PrefixBlockHead, first) <= 1
             /\ \A j \in EndpointEvents : trace[j].sent = first
    /\ (pc = "exec_returned" /\ exec_result.ok /\ ExecFailure(exec_result.val)) =>
          exec_result.val.val.d.query = sparql_query

\* C28: from its entry to its return execute_sparql leaves its parameter as
\* the caller gave it; every attempt hands the endpoint the same text, made
\* anew from the parameter by the line filter and the prefix step, so with
\* the prefix block in it once at most; and a failure it returns holds the
\* parameter, not the filtered text.
C28_QueryNeverMutated ==
    /\ [][(InExecuteSparql /\ InExecuteSparql') => sparql_query' = sparql_query]_vars
    /\ []DispatchedAsGiven

\* C28 witness: the query with a line of prose went to the endpoint three
\* times without that line and under the prefix block, and the failure
\* returned holds it with the line
C28_Witness ==
    /\ tool = "execute_sparql"
    /\ pc = "exec_returned"
    /\ sparql_query = Str(NoisyQuery)
    /\ Cardinality(EndpointEvents) = 3
    /\ \A i \in EndpointEvents :
          /\ trace[i].sent # NoisyQuery
          /\ Occurrences(PrefixBlockHead, trace[i].sent) = 1
          /\ Occurrences(<<"T", "h", "i", "s">>, trace[i].sent) = 0
    /\ ExecFailure(exec_result.val)
    /\ exec_result.val.val.d.query = Str(NoisyQuery)

\* C29 (as claimed): the query that find_entity_facts or get_related_entities
\* builds from an entity ID, a property ID and a limit passes
\* _validate_sparql_query, so the tool goes on to execute_sparql with it.
C29_GeneratedQueriesAccepted ==
    tool \in {"find_entity_facts", "get_related_entities"} =>
        \A i \in DOMAIN trace :
            trace[i].op = "validate" =>
                /\ trace[i].out = "valid"
                /\ pc \in {"attempting", "sleeping", "exec_returned", "done"}
                /\ pc = "done" => EndpointEvents # {}

\* the session ids of the /sse connections that are open
OpenSessions ==
    {connections[c].session_id : c \in {c \in DOMAIN connections : connections[c].pc = "open"}}

\* C30: active_sessions holds exactly the sessions that have an open SSE
\* connection: the session_id of every open connection is a key, no key is
\* left for a session without an open connection, and the `connections`
\* of /health is the number of those sessions.
C30_ActiveSessionsAreOpenConnections ==
    /\ Keys(active_sessions) = OpenSessions
    /\ health.connections = Cardinality(OpenSessions)

\* C30, one half: no key is left for a session without an open connection
C30_NoOrphanEntry == Keys(active_sessions) \subseteq OpenSessions

\* C30, other half: the session_id of every open connection is a key
C30_OpenConnectionPresent == OpenSessions \subseteq Keys(active_sessions)

\* C26: while one call waits in the backoff of the retry, the tool call of
\* another session that has arrived can be taken up: the wait does not hold
\* the server's thread.
C26_BackoffYieldsControl ==
    \A i, j \in DOMAIN frames :
        (i # j /\ frames[i].pc = "sleeping" /\ frames[j].pc = "idle")
            => ENABLED WorkerRunsTool(j)

\* C26, as a statement about the thread: it is not in a call that is waiting
C26_ThreadFreeDuringBackoff ==
    \A i \in DOMAIN frames : frames[i].pc = "sleeping" => running # i

====
